---- MODULE Spec2Model ----
(***************************************************************************)
(* Page Behavior Controller of the laundry landing page (src/script.js).  *)
(* The DOM state the script reads and writes is the state of the model;   *)
(* every listener the script registers is an action.  Timers are kept as  *)
(* the time that remains until they fire.                                 *)
(***************************************************************************)
EXTENDS Integers, Sequences, FiniteSets, TLC

(***************************************************************************)
(* CONFIG (script.js 23-30) and the delay of showFormSuccess (813).       *)
(***************************************************************************)
SCROLL_OFFSET == 80
SCROLL_TO_TOP_THRESHOLD == 300
MOBILE_BREAKPOINT == 768
DEBOUNCE_DELAY == 150
FORM_RESET_DELAY == 5000
ESCAPE_KEYCODE == 27

(***************************************************************************)
(* Bounds of the model.                                                    *)
(***************************************************************************)
\* scroll offsets are 0 and SCROLL_TO_TOP_THRESHOLD - ScrollSpan .. + ScrollSpan
ScrollSpan == 2
\* at most MaxSubmits valid submissions of the form
MaxSubmits == 3
\* field values are all strings over Alphabet of length <= MaxLen
MaxLen == 5
\* widths range over MOBILE_BREAKPOINT - WidthSpan .. MOBILE_BREAKPOINT + WidthSpan
WidthSpan == 1
\* each debounced function is called at most MaxTriggers times
MaxTriggers == 3
\* initializeFeatures runs at most MaxRuns times on a document
MaxRuns == 2
\* at most MaxImages lazy images in the page
MaxImages == 2
\* time advances in steps of a delay divided by TicksPerDelay (rounded up)
TicksPerDelay == 3

NoTimer == -1

Min(a, b) == IF a <= b THEN a ELSE b

VARIABLES
  doc,          \* the markup the page was loaded with (never changes)
  initRuns,     \* how many times initializeFeatures has run
  menu,         \* nav / toggle elements: existence, classes, aria-expanded
  menuListeners,\* the listeners of initMobileMenu are registered
  width,        \* window.innerWidth
  resizeTimer,  \* the debounced resize handler's timer: NoTimer or ms left
  click,        \* the click event being dispatched, listener by listener
  resizeEventW, \* history: the width of the resize event that armed resizeTimer
  trip,         \* history: toggle clicks since initialization (see TripAfter)
  lastMenu      \* history: the menu event that was handled last

menuVars == <<doc, menu, menuListeners, width, resizeTimer, click,
              resizeEventW, trip, lastMenu>>

VARIABLES
  geom,         \* what the handler of the click being dispatched measures
  url,          \* the fragment of location: "" or "#..."
  focus,        \* document.activeElement: "body", a click target, or "section"
  scrollReq,    \* the window.scrollTo request of the click being dispatched
  prevented,    \* defaultPrevented of the click being dispatched
  tabindex,     \* the tabindex attribute of the section and of #main
  cards         \* which of the two are .service-card or .contact-item elements

linkVars == <<geom, url, focus, scrollReq, prevented, tabindex, cards>>

VARIABLES
  scrollBtn,    \* the .scroll-to-top button: existence and its visible class
  scrollListeners, \* the listeners of initScrollToTop are registered
  offset,       \* window.pageYOffset
  quirksMode,   \* the document is rendered in quirks mode (never changes)
  scrollTimer,  \* the debounced scroll handler's timer: NoTimer or ms left
  scrollAnim,   \* a smooth scroll to the top requested by scrollTo is under way
  sinceScroll,  \* history: ms since the scroll event that armed scrollTimer
  lastScroll    \* history: the scroll-to-top step that was taken last

scrollVars == <<scrollBtn, scrollListeners, offset, quirksMode, scrollTimer, scrollAnim,
               sinceScroll, lastScroll>>

VARIABLES
  fields,       \* the form's inputs and textareas, in document order
  errNodes,     \* per parent element: the text of its .field-error node, or NoNode
  formSuccess,  \* the form carries the success class
  banner,       \* the .form-success element in the form: its identity, or 0
  bannersMade,  \* how many .form-success elements were created so far
  formTimers,   \* the pending timers of showFormSuccess, oldest first
  nValid,       \* history: submissions that were valid
  nResets,      \* history: timer callbacks that have run
  lastForm      \* history: the form event that was handled last

formVars == <<fields, errNodes, formSuccess, banner, bannersMade, formTimers,
              nValid, nResets, lastForm>>

VARIABLES
  images,       \* the img[loading="lazy"] elements, in document order
  hasObserver,  \* 'IntersectionObserver' in window (never changes)
  observed,     \* the images the observer observes
  handled,      \* history: per image, how many times loadImage ran on it
  lazyLog,      \* the errors the error listeners have logged
  lastLazy      \* history: the lazy-loading step that was taken last

lazyVars == <<images, hasObserver, observed, handled, lazyLog, lastLazy>>

VARIABLES
  page,         \* how many synthesized elements of each kind the document holds
  pc,           \* the initializer initializeFeatures runs next (0: none)
  attempted,    \* the initializers the current run has called, in order
  lastInit      \* history: the initializer or handler that ran last

featureVars == <<page, pc, attempted, lastInit>>

VARIABLES
  deb,          \* the closures of the debounced functions and the pending timers
  triggers,     \* history: how many times each debounced function was called
  invocations,  \* history: how many times each wrapped function was invoked
  bursts,       \* history: how many bursts of triggers of each have begun
  owed,         \* history: a trigger has arrived since the last invocation
  sinceTrigger, \* history: ms since the last trigger, up to DEBOUNCE_DELAY
  lastDeb       \* history: the debounce step that was taken last

debounceVars == <<deb, triggers, invocations, bursts, owed, sinceTrigger,
                  lastDeb>>

vars == <<initRuns, menuVars, linkVars, scrollVars, formVars, lazyVars, featureVars,
          debounceVars>>

\* what the actions of one feature leave unchanged: the other features
nonMenuVars == <<scrollVars, formVars, lazyVars, featureVars, debounceVars>>
nonScrollVars == <<menuVars, linkVars, formVars, lazyVars, featureVars, debounceVars>>
nonFormVars == <<initRuns, menuVars, linkVars, scrollVars, lazyVars, featureVars,
                 debounceVars>>
nonLazyVars == <<menuVars, linkVars, scrollVars, formVars, featureVars, debounceVars>>
nonInitVars == <<menu, menuListeners, width, resizeTimer, click, resizeEventW, trip,
                 lastMenu, geom, url, focus, scrollReq, prevented, cards,
                 scrollVars, formVars, lazyVars, debounceVars>>
nonDebounceVars == <<initRuns, menuVars, linkVars, scrollVars, formVars, lazyVars,
                     featureVars>>

(***************************************************************************)
(* Documents: the markup the script may find.  A nav inside a header, the *)
(* .header-container (parent of the nav, or not, or missing) and possibly *)
(* a toggle button written in the markup, in its closed state, with or    *)
(* without an aria-expanded attribute.                                    *)
(***************************************************************************)
Documents ==
  { d \in [ hasHeader : BOOLEAN, hasNav : BOOLEAN,
            container : {"none", "parent", "other"},
            toggleMarkup : BOOLEAN, ariaMarkup : {"absent", "false"} ] :
      /\ d.hasNav => d.hasHeader
      /\ ~d.hasHeader => d.container = "none"
      /\ ~d.toggleMarkup => d.ariaMarkup = "absent" }

Widths == (MOBILE_BREAKPOINT - WidthSpan)..(MOBILE_BREAKPOINT + WidthSpan)

\* click targets: the toggle (or a child of it), the nav outside its links,
\* a nav link whose fragment resolves / does not resolve
\* (href #services / #missing) or is empty (href #), anything else
Targets == {"toggle", "nav", "link_ok", "link_bad", "link_hash", "outside", "skip"}
Links == {"link_ok", "link_bad", "link_hash"}

\* keydown events: event.key and event.keyCode
Keys == { [key |-> "Escape", keyCode |-> 27], [key |-> "Esc", keyCode |-> 27],
          [key |-> "Enter", keyCode |-> 13], [key |-> "a", keyCode |-> 65] }

NoClick == [target |-> "none", phase |-> "idle", wasOpen |-> FALSE]

\* nav.contains(event.target), menuToggle.contains(event.target)
navContains(t) == t \in {"nav"} \cup Links
toggleContains(t) == t = "toggle"

(***************************************************************************)
(* Mobile menu (script.js 181-410).                                       *)
(***************************************************************************)
\* openMobileMenu, 343-354
openMobileMenu(m) ==
  IF ~m.nav \/ ~m.toggle THEN m
  ELSE [m EXCEPT !.navOpen = TRUE, !.toggleOpen = TRUE, !.aria = "true"]

\* closeMobileMenu without line 368 (the toggle keeps its class)
closeMobileMenu_navOnly(m) ==
  IF ~m.nav \/ ~m.toggle THEN m
  ELSE [m EXCEPT !.navOpen = FALSE, !.aria = "false"]

\* closeMobileMenu, 359-370
closeMobileMenu(m) ==
  IF ~m.nav \/ ~m.toggle THEN m
  ELSE [m EXCEPT !.navOpen = FALSE, !.toggleOpen = FALSE, !.aria = "false"]

\* toggleMobileMenu, 319-338
toggleMobileMenu(m) ==
  IF ~m.nav \/ ~m.toggle THEN m
  ELSE IF m.navOpen THEN closeMobileMenu(m) ELSE openMobileMenu(m)

\* handleOutsideClick without the test on the toggle (the line-388 condition
\* reduced to !nav.contains(event.target))
handleOutsideClick_noToggleTest(m, t) ==
  IF ~m.nav \/ ~m.toggle THEN m
  ELSE IF ~m.navOpen THEN m
  ELSE IF ~navContains(t) THEN closeMobileMenu(m)
  ELSE m

\* handleOutsideClick, 376-391
handleOutsideClick(m, t) ==
  IF ~m.nav \/ ~m.toggle THEN m
  ELSE IF ~m.navOpen THEN m
  ELSE IF ~navContains(t) /\ ~toggleContains(t) THEN closeMobileMenu(m)
  ELSE m

\* handleEscapeKey testing event.key alone
handleEscapeKey_keyOnly(m, k) ==
  IF k.key = "Escape" THEN closeMobileMenu(m) ELSE m

\* handleEscapeKey, 397-401
handleEscapeKey(m, k) ==
  IF k.key = "Escape" \/ k.keyCode = ESCAPE_KEYCODE THEN closeMobileMenu(m) ELSE m

\* handleResize with the breakpoint exclusive
handleResize_exclusive(m, w) ==
  IF w > MOBILE_BREAKPOINT THEN closeMobileMenu(m) ELSE m

\* handleResize, 406-410
handleResize(m, w) ==
  IF w >= MOBILE_BREAKPOINT THEN closeMobileMenu(m) ELSE m

\* createMobileMenuToggle, 217-232: the button as it is created
createMobileMenuToggle(m) ==
  [m EXCEPT !.toggle = TRUE, !.toggleOpen = FALSE, !.aria = "false"]

\* initMobileMenu, 181-211: the menu after it, and whether the listeners
\* were registered (they are not after an early return or a throw)
initMobileMenu(d, m) ==
  IF ~d.hasHeader \/ ~m.nav
    THEN [menu |-> m, listeners |-> FALSE, threw |-> FALSE]
  ELSE IF m.toggle
    THEN [menu |-> m, listeners |-> TRUE, threw |-> FALSE]
  ELSE IF d.container = "parent"
    THEN [menu |-> createMobileMenuToggle(m), listeners |-> TRUE, threw |-> FALSE]
  \* null.insertBefore (no container) or insertBefore's NotFoundError
  ELSE [menu |-> m, listeners |-> FALSE, threw |-> TRUE]

MenuOf(d) ==
  [nav |-> d.hasNav, toggle |-> d.toggleMarkup, navOpen |-> FALSE,
   toggleOpen |-> FALSE, aria |-> d.ariaMarkup]

(***************************************************************************)
(* Smooth scrolling of the nav links (script.js 96-99, 133-172).          *)
(***************************************************************************)
\* the href attribute of a nav link (they all match a[href^="#"], 33)
Href(t) ==
  CASE t = "link_ok" -> "#services"
    [] t = "link_bad" -> "#missing"
    [] OTHER -> "#"

startsWithHash(href) == href \in {"#services", "#missing", "#"}

\* document.querySelector(targetId), 141: the element with that id, null
\* when there is none, a SyntaxError when the selector is not one ("#")
querySelector(sel) ==
  CASE sel = "#services" -> "section"
    [] sel = "#" -> "SyntaxError"
    [] OTHER -> "null"

\* what a click handler measures: getBoundingClientRect().top of the target
\* element, window.pageYOffset, offsetHeight of the header
RectTops == {-40, 0, 500}
PageYOffsets == {0, 120}
HeaderHeights == {0, 64}
Geoms == [top : RectTops, y : PageYOffsets, h : HeaderHeights]
NoGeom == [top |-> 0, y |-> 0, h |-> 0]

NoRequest == [top |-> 0, behavior |-> "none"]

\* getScrollOffset with the constant in every case
getScrollOffset_constant(hasHeader, offsetHeight) == SCROLL_OFFSET

\* getScrollOffset, 96-99
getScrollOffset(hasHeader, offsetHeight) ==
  IF hasHeader THEN offsetHeight ELSE SCROLL_OFFSET

\* the state a nav-link click handler reads and writes
LinkState(m, u, f, q, p, ti) ==
  [menu |-> m, url |-> u, focus |-> f, scrollReq |-> q, prevented |-> p,
   tabindex |-> ti, logged |-> FALSE]

\* the tabindex attribute of an element: "absent" or its value ("0", "-1");
\* "none" stands for a page that has no such element
\* element.setAttribute('tabindex', v)
setAttribute(ti, v) == v

\* element.removeAttribute('tabindex')
removeAttribute(ti) == "absent"

\* the transient focus move of 166-168 and 851-853: setAttribute, focus(),
\* removeAttribute
focusTransient(ti) == removeAttribute(setAttribute(ti, "-1"))

\* handleSmoothScroll with preventDefault ahead of the tests of 137-145
handleSmoothScroll_preventFirst(s, hasHeader, t, g) ==
  LET targetId == Href(t)
      p == [s EXCEPT !.prevented = TRUE] IN
    IF targetId = "" \/ ~startsWithHash(targetId) THEN p
    ELSE IF querySelector(targetId) = "SyntaxError" THEN [p EXCEPT !.logged = TRUE]
    ELSE IF querySelector(targetId) = "null" THEN p
    ELSE [p EXCEPT
            !.scrollReq = [top |-> g.top + g.y - getScrollOffset(hasHeader, g.h),
                           behavior |-> "smooth"],
            !.url = targetId,
            !.menu = closeMobileMenu(s.menu),
            !.focus = querySelector(targetId),
            !.tabindex = focusTransient(s.tabindex)]

\* handleSmoothScroll, 133-172.  history.pushState (158) exists in every
\* engine that parses the script (const, arrow functions, rest parameters).
handleSmoothScroll(s, hasHeader, t, g) ==
  LET targetId == Href(t) IN
    IF targetId = "" \/ ~startsWithHash(targetId) THEN s
    \* the SyntaxError of 141 is caught at 169 and logged
    ELSE IF querySelector(targetId) = "SyntaxError" THEN [s EXCEPT !.logged = TRUE]
    ELSE IF querySelector(targetId) = "null" THEN s
    ELSE [s EXCEPT
            !.prevented = TRUE,
            !.scrollReq = [top |-> g.top + g.y - getScrollOffset(hasHeader, g.h),
                           behavior |-> "smooth"],
            !.url = targetId,
            !.menu = closeMobileMenu(s.menu),
            !.focus = querySelector(targetId),
            !.tabindex = focusTransient(s.tabindex)]

\* handleSkipLink, 847-855; s.tabindex is the attribute of #main
handleSkipLink(s) ==
  LET p == [s EXCEPT !.prevented = TRUE] IN
    IF s.tabindex = "none" THEN p
    ELSE [p EXCEPT !.focus = "main", !.tabindex = focusTransient(s.tabindex)]

LinkIdle ==
  /\ geom = NoGeom
  /\ url = ""
  /\ focus = "body"
  /\ scrollReq = NoRequest
  /\ prevented = FALSE

NoTabindex == [section |-> "absent", main |-> "none"]

\* markup that gives neither the scroll target nor #main a tabindex
PlainTabindex == [section |-> "absent", main |-> "absent"]

\* the markup of the scroll target and of #main
Tabindexes ==
  {[section |-> "absent", main |-> "absent"],
   [section |-> "0", main |-> "-1"],
   [section |-> "-1", main |-> "none"]}

\* the markup: which of the two elements carry the class service-card or
\* contact-item; an element that is missing carries none
CardSets(ti) ==
  { cs \in {{}, {"section"}, {"section", "main"}} : ti.main = "none" => "main" \notin cs }

\* initKeyboardAccessibility, 823-841 (the cards, 832-837): a card without
\* a tabindex attribute gets tabindex="0"
initKeyboardAccessibility(ti, cs) ==
  [e \in DOMAIN ti |->
     IF e \in cs /\ ti[e] = "absent" THEN setAttribute(ti[e], "0") ELSE ti[e]]

LinkInit == LinkIdle /\ tabindex = NoTabindex /\ cards = {}

NoMenuEvent == [ev |-> "load", target |-> "none", key |-> "none", keyCode |-> 0,
                w |-> 0, wasOpen |-> FALSE]

InitMenu ==
  /\ doc \in Documents
  /\ initRuns = 0
  /\ menu = MenuOf(doc)
  /\ menuListeners = FALSE
  /\ width \in Widths
  /\ resizeTimer = NoTimer
  /\ click = NoClick
  /\ resizeEventW = 0
  /\ trip = "none"
  /\ lastMenu = NoMenuEvent
  /\ LinkIdle
  /\ tabindex = PlainTabindex
  /\ cards = {}

\* initializeFeatures, 880-893 (the mobile menu's part)
InitializeMenu ==
  /\ UNCHANGED nonMenuVars
  /\ initRuns = 0
  /\ click = NoClick
  /\ LET r == initMobileMenu(doc, menu) IN
       /\ menu' = r.menu
       /\ menuListeners' = r.listeners
  /\ initRuns' = 1
  /\ trip' = "initial"
  /\ lastMenu' = [NoMenuEvent EXCEPT !.ev = "init"]
  /\ UNCHANGED <<doc, width, resizeTimer, click, resizeEventW>>
  /\ tabindex' = initKeyboardAccessibility(tabindex, cards)
  /\ UNCHANGED <<geom, url, focus, scrollReq, prevented, cards>>

Idle == initRuns > 0 /\ click = NoClick

\* a click is dispatched on target t: the listeners of the target run
\* first, the document's listener last
ClickBegin(t) ==
  /\ UNCHANGED nonMenuVars
  /\ Idle
  /\ t = "toggle" => menu.toggle
  /\ navContains(t) => menu.nav
  /\ click' = [target |-> t,
               phase |-> IF t \in {"toggle", "skip"} \cup Links
                           THEN "target" ELSE "document",
               wasOpen |-> menu.navOpen]
  /\ lastMenu' = [NoMenuEvent EXCEPT !.ev = "dispatch", !.target = t,
                                     !.wasOpen = menu.navOpen]
  /\ UNCHANGED <<doc, initRuns, menu, menuListeners, width, resizeTimer,
                 resizeEventW, trip>>
  /\ \E g \in Geoms : geom' = IF t \in Links THEN g ELSE NoGeom
  \* the click moves the focus to its target when that is focusable
  /\ focus' = IF t \in {"toggle", "skip"} \cup Links THEN t ELSE "body"
  /\ scrollReq' = NoRequest
  /\ prevented' = FALSE
  /\ UNCHANGED <<url, tabindex, cards>>

\* the listener registered on the click's target: toggleMobileMenu on the
\* toggle (198), handleSmoothScroll on a nav link (122), handleSkipLink on
\* the skip link (828)
TargetListener ==
  /\ UNCHANGED nonMenuVars
  /\ click.phase = "target"
  /\ LET el == IF click.target = "skip" THEN "main" ELSE "section"
         s == LinkState(menu, url, focus, scrollReq, prevented, tabindex[el])
         r == IF click.target = "toggle"
                THEN (IF menuListeners
                        THEN [s EXCEPT !.menu = toggleMobileMenu(menu)] ELSE s)
                ELSE IF click.target = "skip" THEN handleSkipLink(s)
                ELSE handleSmoothScroll(s, doc.hasHeader, click.target, geom) IN
       /\ menu' = r.menu
       /\ url' = r.url
       /\ focus' = r.focus
       /\ scrollReq' = r.scrollReq
       /\ prevented' = r.prevented
       /\ tabindex' = [tabindex EXCEPT ![el] = r.tabindex]
  /\ UNCHANGED cards
  /\ UNCHANGED geom
  /\ click' = [click EXCEPT !.phase = "document"]
  /\ lastMenu' = [NoMenuEvent EXCEPT !.ev = "targetListener", !.target = click.target,
                                     !.wasOpen = click.wasOpen]
  /\ UNCHANGED <<doc, initRuns, menuListeners, width, resizeTimer, resizeEventW, trip>>

\* history of the round trip of the menu: "initial" after initialization,
\* "opened" once a toggle click has opened the menu from there, "closed"
\* once the next toggle click has closed it again, "off" after anything else
TripAfter(tr, t, open) ==
  IF t = "toggle" /\ tr = "initial" /\ open THEN "opened"
  ELSE IF t = "toggle" /\ tr = "opened" /\ ~open THEN "closed"
  ELSE "off"

\* the document's click listener, handleOutsideClick (201); the dispatch ends
DocumentListener ==
  /\ UNCHANGED nonMenuVars
  /\ click.phase = "document"
  /\ menu' = IF menuListeners THEN handleOutsideClick(menu, click.target) ELSE menu
  /\ click' = NoClick
  /\ lastMenu' = [NoMenuEvent EXCEPT !.ev = "click", !.target = click.target,
                                     !.wasOpen = click.wasOpen]
  /\ trip' = TripAfter(trip, click.target, menu'.navOpen)
  \* the default action of a link that no listener prevented: navigation
  \* to the fragment
  /\ url' = IF click.target \in Links /\ ~prevented THEN Href(click.target) ELSE url
  /\ UNCHANGED <<geom, focus, scrollReq, prevented, tabindex, cards>>
  /\ UNCHANGED <<doc, initRuns, menuListeners, width, resizeTimer, resizeEventW>>

\* a keydown reaches the document's listener, handleEscapeKey (204)
KeyDown(k) ==
  /\ UNCHANGED nonMenuVars
  /\ Idle
  /\ menu' = IF menuListeners THEN handleEscapeKey(menu, k) ELSE menu
  /\ lastMenu' = [NoMenuEvent EXCEPT !.ev = "keydown", !.key = k.key,
                                     !.keyCode = k.keyCode, !.wasOpen = menu.navOpen]
  /\ trip' = "off"
  /\ UNCHANGED <<doc, initRuns, menuListeners, width, resizeTimer, click, resizeEventW>>
  /\ UNCHANGED linkVars

\* debounce, 60-75: a call of the debounced function clears the pending
\* timer and starts a new one of `wait` ms
debounced(timer, wait) == wait

\* the window is resized to w: the debounced handleResize is called (207)
Resize(w) ==
  /\ UNCHANGED nonMenuVars
  /\ Idle
  /\ w # width
  /\ width' = w
  /\ resizeTimer' = IF menuListeners THEN debounced(resizeTimer, DEBOUNCE_DELAY)
                    ELSE resizeTimer
  /\ resizeEventW' = IF menuListeners THEN w ELSE resizeEventW
  /\ lastMenu' = [NoMenuEvent EXCEPT !.ev = "resize", !.w = w, !.wasOpen = menu.navOpen]
  /\ UNCHANGED <<doc, initRuns, menu, menuListeners, click, trip>>
  /\ UNCHANGED linkVars

\* the resize timer fires: timeoutId = null, handleResize runs (70-73)
ResizeFire ==
  /\ UNCHANGED nonMenuVars
  /\ Idle
  /\ resizeTimer = 0
  /\ resizeTimer' = NoTimer
  /\ menu' = handleResize(menu, width)
  /\ resizeEventW' = 0
  /\ trip' = "off"
  /\ lastMenu' = [NoMenuEvent EXCEPT !.ev = "resizeFire", !.w = resizeEventW,
                                     !.wasOpen = menu.navOpen]
  /\ UNCHANGED <<doc, initRuns, menuListeners, width, click>>
  /\ UNCHANGED linkVars

DebounceTick == (DEBOUNCE_DELAY + TicksPerDelay - 1) \div TicksPerDelay

\* time passes, up to the moment the pending resize timer is due
TickMenu ==
  /\ UNCHANGED nonMenuVars
  /\ Idle
  /\ resizeTimer > 0
  /\ resizeTimer' = resizeTimer - Min(DebounceTick, resizeTimer)
  /\ lastMenu' = [NoMenuEvent EXCEPT !.ev = "tick", !.wasOpen = menu.navOpen]
  /\ UNCHANGED <<doc, initRuns, menu, menuListeners, width, click, resizeEventW, trip>>
  /\ UNCHANGED linkVars

NextMenu ==
  \/ InitializeMenu
  \/ \E t \in Targets : ClickBegin(t)
  \/ TargetListener
  \/ DocumentListener
  \/ \E k \in Keys : KeyDown(k)
  \/ \E w \in Widths : Resize(w)
  \/ ResizeFire
  \/ TickMenu

\* a page without header, nav and toggle: the menu feature stays dormant
NoMenuDoc == [hasHeader |-> FALSE, hasNav |-> FALSE, container |-> "none",
              toggleMarkup |-> FALSE, ariaMarkup |-> "absent"]

MenuDormant ==
  /\ doc = NoMenuDoc
  /\ menu = MenuOf(NoMenuDoc)
  /\ menuListeners = FALSE
  /\ width = MOBILE_BREAKPOINT
  /\ resizeTimer = NoTimer
  /\ click = NoClick
  /\ resizeEventW = 0
  /\ trip = "none"
  /\ lastMenu = NoMenuEvent
  /\ LinkInit

(***************************************************************************)
(* Scroll-to-top button (script.js 504-638).                              *)
(***************************************************************************)
Offsets == {0} \cup ((SCROLL_TO_TOP_THRESHOLD - ScrollSpan)..(SCROLL_TO_TOP_THRESHOLD + ScrollSpan))

\* window.pageYOffset || document.documentElement.scrollTop, 614
scrollPosition(pageYOffset, scrollTop) ==
  IF pageYOffset # 0 THEN pageYOffset ELSE scrollTop

\* document.documentElement.scrollTop: the page's offset, but 0 in quirks
\* mode, where the body is the scrolling element
documentElementScrollTop(off, quirks) == IF quirks THEN 0 ELSE off

\* handleScroll with the threshold inclusive
handleScroll_inclusive(b, off, quirks) ==
  IF ~b.exists THEN b
  ELSE [b EXCEPT !.visible =
          (scrollPosition(off, documentElementScrollTop(off, quirks))
             >= SCROLL_TO_TOP_THRESHOLD)]

\* handleScroll, 606-624
handleScroll(b, off, quirks) ==
  IF ~b.exists THEN b
  ELSE IF scrollPosition(off, documentElementScrollTop(off, quirks))
            > SCROLL_TO_TOP_THRESHOLD
    THEN [b EXCEPT !.visible = TRUE]
    ELSE [b EXCEPT !.visible = FALSE]

\* createScrollToTopButton, 527-537
createScrollToTopButton == [exists |-> TRUE, visible |-> FALSE]

\* initScrollToTop without its initial check
initScrollToTop_noInitialCheck(b, off, quirks) ==
  IF ~b.exists THEN createScrollToTopButton ELSE b

\* initScrollToTop, 504-521: the button after it
initScrollToTop(b, off, quirks) ==
  handleScroll(IF ~b.exists THEN createScrollToTopButton ELSE b, off, quirks)

NoScrollEvent == [ev |-> "load", off |-> 0]

\* the markup may hold the button, with or without the visible class
InitScroll ==
  /\ scrollBtn \in { b \in [exists : BOOLEAN, visible : BOOLEAN] : b.visible => b.exists }
  /\ scrollListeners = FALSE
  /\ offset \in Offsets
  /\ quirksMode \in BOOLEAN
  /\ scrollTimer = NoTimer
  /\ scrollAnim = FALSE
  /\ sinceScroll = 0
  /\ lastScroll = NoScrollEvent

\* initializeFeatures, 880-893 (the scroll-to-top part)
InitializeScroll ==
  /\ UNCHANGED nonScrollVars
  /\ initRuns = 0
  /\ initRuns' = 1
  /\ scrollBtn' = initScrollToTop(scrollBtn, offset, quirksMode)
  /\ scrollListeners' = TRUE
  /\ lastScroll' = [ev |-> "init", off |-> offset]
  /\ UNCHANGED <<offset, quirksMode, scrollTimer, scrollAnim, sinceScroll>>

\* the user scrolls the page to off: the debounced handleScroll is called
\* (514); a smooth scroll under way goes on or is given up by the browser
Scroll(off) ==
  /\ UNCHANGED nonScrollVars
  /\ initRuns > 0
  /\ off # offset
  /\ offset' = off
  /\ scrollTimer' = IF scrollListeners THEN debounced(scrollTimer, DEBOUNCE_DELAY)
                    ELSE scrollTimer
  /\ \E goesOn \in BOOLEAN : scrollAnim' = (scrollAnim /\ goesOn /\ off # 0)
  /\ sinceScroll' = 0
  /\ lastScroll' = [ev |-> "scroll", off |-> off]
  /\ UNCHANGED <<initRuns, scrollBtn, scrollListeners, quirksMode>>

\* window.scrollTo({top: 0, behavior: 'smooth'}), 631-634: the request
\* starts a smooth scroll unless the page is at the top
scrollTo(off) == off # 0

\* scrollToTop, 629-638: the click listener of the button only makes the
\* request; offset and timers are as they were when it returns
ScrollToTopClick ==
  /\ UNCHANGED nonScrollVars
  /\ initRuns > 0
  /\ scrollBtn.exists /\ scrollListeners
  /\ scrollAnim' = scrollTo(offset)
  /\ lastScroll' = [ev |-> "toTop", off |-> offset]
  /\ UNCHANGED <<initRuns, scrollBtn, scrollListeners, offset, quirksMode,
                 scrollTimer, sinceScroll>>

\* the smooth scroll moves the page to off, nearer to the top, and the
\* browser dispatches a scroll event, a task of its own: the debounced
\* handleScroll is called (514)
SmoothScrollStep(off) ==
  /\ UNCHANGED nonScrollVars
  /\ scrollAnim
  /\ off < offset
  /\ offset' = off
  /\ scrollAnim' = (off # 0)
  /\ scrollTimer' = IF scrollListeners THEN debounced(scrollTimer, DEBOUNCE_DELAY)
                    ELSE scrollTimer
  /\ sinceScroll' = 0
  /\ lastScroll' = [ev |-> "smoothScroll", off |-> off]
  /\ UNCHANGED <<initRuns, scrollBtn, scrollListeners, quirksMode>>

\* the scroll timer fires: timeoutId = null, handleScroll runs (70-73)
ScrollFire ==
  /\ UNCHANGED nonScrollVars
  /\ scrollTimer = 0
  /\ scrollTimer' = NoTimer
  /\ scrollBtn' = handleScroll(scrollBtn, offset, quirksMode)
  /\ lastScroll' = [ev |-> "scrollFire", off |-> offset]
  /\ UNCHANGED <<initRuns, scrollListeners, offset, quirksMode, scrollAnim, sinceScroll>>

\* time passes, up to the moment the pending scroll timer is due
TickScroll ==
  /\ UNCHANGED nonScrollVars
  /\ scrollTimer > 0
  /\ scrollTimer' = scrollTimer - Min(DebounceTick, scrollTimer)
  /\ sinceScroll' = sinceScroll + Min(DebounceTick, scrollTimer)
  /\ lastScroll' = [ev |-> "tick", off |-> offset]
  /\ UNCHANGED <<initRuns, scrollBtn, scrollListeners, offset, quirksMode, scrollAnim>>

NextScroll ==
  \/ InitializeScroll
  \/ \E off \in Offsets : Scroll(off)
  \/ ScrollToTopClick
  \/ \E off \in Offsets : SmoothScrollStep(off)
  \/ ScrollFire
  \/ TickScroll

ScrollDormant ==
  /\ scrollBtn = [exists |-> FALSE, visible |-> FALSE]
  /\ scrollListeners = FALSE
  /\ offset = 0
  /\ quirksMode = FALSE
  /\ scrollTimer = NoTimer
  /\ scrollAnim = FALSE
  /\ sinceScroll = 0
  /\ lastScroll = NoScrollEvent

(***************************************************************************)
(* Contact form validation (script.js 648-814).                           *)
(* A string is a sequence of characters.  A character that the text of    *)
(* this module cannot hold is written as its code point, "U+00A0".        *)
(***************************************************************************)
Alphabet == {"a", "@", ".", " ", "7"}

Examples == { <<"n","o","t","-","a","n","-","e","m","a","i","l">>,
              <<"a","@","b",".","c","o">>,
              <<"+","1"," ","(","5","5","5",")"," ","0","1","-","2","3">>,
              <<"\t","a","@","b",".","c"," ">>,
              <<"\f">>,
              <<"7","\f","7">>,
              <<"U+00A0","a","@","b",".","c","U+2028">> }

Values == UNION { [1..n -> Alphabet] : n \in 0..MaxLen } \cup Examples

\* the white space and line terminator characters of ECMAScript
WhiteSpace ==
  {" ", "\t", "\n", "\r", "\f", "U+000B", "U+00A0", "U+1680",
   "U+2000", "U+2001", "U+2002", "U+2003", "U+2004", "U+2005", "U+2006",
   "U+2007", "U+2008", "U+2009", "U+200A", "U+2028", "U+2029", "U+202F",
   "U+205F", "U+3000", "U+FEFF"}

\* \s of a regular expression, and what String.prototype.trim strips
isWhitespace(c) == c \in WhiteSpace
\* \d
isDigit(c) == c \in {"0", "1", "2", "3", "4", "5", "6", "7", "8", "9"}

RECURSIVE trimStart(_)
trimStart(s) ==
  IF s = <<>> THEN s
  ELSE IF isWhitespace(Head(s)) THEN trimStart(Tail(s)) ELSE s

RECURSIVE trimEnd(_)
trimEnd(s) ==
  IF s = <<>> THEN s
  ELSE IF isWhitespace(s[Len(s)]) THEN trimEnd(SubSeq(s, 1, Len(s) - 1)) ELSE s

\* field.value.trim(), 720
trim(s) == trimEnd(trimStart(s))

\* [^\s@]
notSpaceNorAt(c) == ~isWhitespace(c) /\ c # "@"

\* /^[^\s@]+@[^\s@]+\.[^\s@]+$/ (734) as the automaton a regex engine
\* runs: state 0 before the local part, 1 in it, 2 after the @, 3 in the
\* domain, 4 after the dot, 5 in the last part (accepting)
emailStep(q, c) ==
  CASE q = 0 -> IF notSpaceNorAt(c) THEN {1} ELSE {}
    [] q = 1 -> (IF notSpaceNorAt(c) THEN {1} ELSE {}) \cup (IF c = "@" THEN {2} ELSE {})
    [] q = 2 -> IF notSpaceNorAt(c) THEN {3} ELSE {}
    [] q = 3 -> (IF notSpaceNorAt(c) THEN {3} ELSE {}) \cup (IF c = "." THEN {4} ELSE {})
    [] q = 4 -> IF notSpaceNorAt(c) THEN {5} ELSE {}
    [] q = 5 -> IF notSpaceNorAt(c) THEN {5} ELSE {}

RECURSIVE emailRun(_, _)
emailRun(qs, s) ==
  IF s = <<>> THEN qs
  ELSE emailRun(UNION { emailStep(q, Head(s)) : q \in qs }, Tail(s))

emailRegexTest(s) == 5 \in emailRun({0}, s)

\* [\d\s\-\+\(\)]
phoneChar(c) == isDigit(c) \/ isWhitespace(c) \/ c \in {"-", "+", "(", ")"}

\* /^[\d\s\-\+\(\)]+$/ (743)
phoneRegexTest(s) == s # <<>> /\ \A i \in 1..Len(s) : phoneChar(s[i])

NoNode == "none"
MsgRequired == "This field is required"
MsgEmail == "Please enter a valid email address"
MsgPhone == "Please enter a valid phone number"

\* the part of the document the form handlers work on
FormDom(f, n) == [fields |-> f, nodes |-> n]

\* clearFieldError without the removal of the message node (783-786)
clearFieldError_keepsNode(d, i) ==
  [fields |-> [d.fields EXCEPT ![i].error = FALSE, ![i].ariaInvalid = FALSE],
   nodes |-> d.nodes]

\* clearFieldError, 778-787
clearFieldError(d, i) ==
  [fields |-> [d.fields EXCEPT ![i].error = FALSE, ![i].ariaInvalid = FALSE],
   nodes |-> [d.nodes EXCEPT ![d.fields[i].parent] = NoNode]]

\* showFieldError, 758-772
showFieldError(d, i, message) ==
  [fields |-> [d.fields EXCEPT ![i].error = TRUE, ![i].ariaInvalid = TRUE],
   nodes |-> [d.nodes EXCEPT ![d.fields[i].parent] = message]]

\* validateField reading field.value without trim()
validateField_noTrim(d, i) ==
  LET field == d.fields[i]
      value == field.value
      c == clearFieldError(d, i)
  IN  IF field.required /\ value = <<>>
        THEN [dom |-> showFieldError(c, i, MsgRequired), ok |-> FALSE]
      ELSE IF field.type = "email" /\ value # <<>> /\ ~emailRegexTest(value)
        THEN [dom |-> showFieldError(c, i, MsgEmail), ok |-> FALSE]
      ELSE IF field.type = "tel" /\ value # <<>> /\ ~phoneRegexTest(value)
        THEN [dom |-> showFieldError(c, i, MsgPhone), ok |-> FALSE]
      ELSE [dom |-> c, ok |-> TRUE]

\* validateField, 718-751: the document after it and what it returns
validateField(d, i) ==
  LET field == d.fields[i]
      value == trim(field.value)
      c == clearFieldError(d, i)
  IN  IF field.required /\ value = <<>>
        THEN [dom |-> showFieldError(c, i, MsgRequired), ok |-> FALSE]
      ELSE IF field.type = "email" /\ value # <<>> /\ ~emailRegexTest(value)
        THEN [dom |-> showFieldError(c, i, MsgEmail), ok |-> FALSE]
      ELSE IF field.type = "tel" /\ value # <<>> /\ ~phoneRegexTest(value)
        THEN [dom |-> showFieldError(c, i, MsgPhone), ok |-> FALSE]
      ELSE [dom |-> c, ok |-> TRUE]

FieldTypes == {"text", "email", "tel", "textarea"}

NewField(t, r, v, p) ==
  [type |-> t, required |-> r, value |-> v, default |-> v, parent |-> p,
   error |-> FALSE, ariaInvalid |-> FALSE]

\* had: the field carried the error class before the event
NoFormEvent == [ev |-> "load", field |-> 0, ok |-> FALSE, prevented |-> FALSE,
                threw |-> FALSE, value |-> <<>>, el |-> 0, age |-> 0, behind |-> 0,
                had |-> FALSE]

SuccessDormant ==
  /\ formSuccess = FALSE
  /\ banner = 0
  /\ bannersMade = 0
  /\ formTimers = <<>>
  /\ nValid = 0
  /\ nResets = 0
  /\ lastForm = NoFormEvent

\* a form of one field of any type, required or not, holding any value
InitField ==
  /\ \E t \in FieldTypes, r \in BOOLEAN, v \in Values :
       fields = <<NewField(t, r, v, 1)>>
  /\ errNodes = <<NoNode>>
  /\ SuccessDormant

\* the field loses the focus: the blur listener, validateField (662)
Blur(i) ==
  /\ UNCHANGED nonFormVars
  /\ LET r == validateField(FormDom(fields, errNodes), i) IN
       /\ fields' = r.dom.fields
       /\ errNodes' = r.dom.nodes
       /\ lastForm' = [NoFormEvent EXCEPT !.ev = "blur", !.field = i, !.ok = r.ok,
                                          !.value = fields[i].value,
                                          !.had = fields[i].error]
  /\ UNCHANGED <<formSuccess, banner, bannersMade, formTimers, nValid, nResets>>

NextField == \E i \in DOMAIN fields : Blur(i)

\* validateForm, 700-711, from field i on; a throw inside validateField at
\* field throwAt (0: none) ends the loop there
RECURSIVE validateFrom(_, _, _, _)
validateFrom(d, i, isValid, throwAt) ==
  IF i > Len(d.fields) THEN [dom |-> d, ok |-> isValid, threw |-> FALSE]
  ELSE IF i = throwAt THEN [dom |-> d, ok |-> isValid, threw |-> TRUE]
  ELSE LET r == validateField(d, i) IN
         validateFrom(r.dom, i + 1, isValid /\ r.ok, throwAt)

validateForm(d, throwAt) == validateFrom(d, 1, TRUE, throwAt)

\* the success state of the form: class, banner element, pending timers
SuccessState(c, b, made, timers) ==
  [success |-> c, banner |-> b, made |-> made, timers |-> timers]

\* showFormSuccess clearing the timer of an earlier submission first
showFormSuccess_cancelsPending(s) ==
  LET el == IF s.banner = 0 THEN s.made + 1 ELSE s.banner IN
    [success |-> TRUE, banner |-> el,
     made |-> IF s.banner = 0 THEN s.made + 1 ELSE s.made,
     timers |-> <<[left |-> FORM_RESET_DELAY, el |-> el, age |-> 0,
                   behind |-> IF s.timers = <<>> THEN 0 ELSE 1]>>]

\* showFormSuccess, 793-814: the class is added, the banner found or
\* created, and a timer started that holds the banner element
showFormSuccess(s) ==
  LET el == IF s.banner = 0 THEN s.made + 1 ELSE s.banner IN
    [success |-> TRUE, banner |-> el,
     made |-> IF s.banner = 0 THEN s.made + 1 ELSE s.made,
     timers |-> Append(s.timers, [left |-> FORM_RESET_DELAY, el |-> el, age |-> 0,
                                  behind |-> IF s.timers = <<>> THEN 0 ELSE 1])]

\* handleFormSubmit calling preventDefault after the validation, inside try
handleFormSubmit_preventLate(d, s, throwAt) ==
  LET v == validateForm(d, throwAt)
      valid == ~v.threw /\ v.ok
  IN  [prevented |-> ~v.threw, dom |-> v.dom, threw |-> v.threw, valid |-> valid,
       succ |-> IF valid THEN showFormSuccess(s) ELSE s]

\* handleFormSubmit, 674-693
handleFormSubmit(d, s, throwAt) ==
  LET v == validateForm(d, throwAt)
      valid == ~v.threw /\ v.ok
  IN  [prevented |-> TRUE, dom |-> v.dom, threw |-> v.threw, valid |-> valid,
       succ |-> IF valid THEN showFormSuccess(s) ELSE s]

\* form.reset(), 808: every field returns to its default value
formReset(f) == [i \in DOMAIN f |-> [f[i] EXCEPT !.value = f[i].default]]

\* the timer callback without form.reset()
resetCallback_noReset(f, s, t) ==
  [fields |-> f,
   succ |-> [s EXCEPT !.success = FALSE,
                      !.banner = IF s.banner = t.el THEN 0 ELSE s.banner]]

\* the timer callback leaving the banner in the form
resetCallback_keepsBanner(f, s, t) ==
  [fields |-> formReset(f), succ |-> [s EXCEPT !.success = FALSE]]

\* the timer callback of showFormSuccess, 807-813, for the timer t
resetCallback(f, s, t) ==
  [fields |-> formReset(f),
   succ |-> [s EXCEPT !.success = FALSE,
                      !.banner = IF s.banner = t.el THEN 0 ELSE s.banner]]

\* what a user may type into a field
FormValues == { <<>>, <<"a","@","b",".","c","o">>, <<"7">> }

\* contact forms: a required email field and an optional tel field; the
\* email field may be prefilled by the markup (its default value), and the
\* tel field has its own parent element or shares the email field's
FormLayouts ==
  { <<NewField("email", TRUE, <<>>, 1), NewField("tel", FALSE, <<>>, 2)>>,
    <<NewField("email", TRUE, <<"a","@","b",".","c","o">>, 1), NewField("tel", FALSE, <<>>, 2)>>,
    <<NewField("email", TRUE, <<>>, 1), NewField("tel", FALSE, <<>>, 1)>> }

InitForm ==
  /\ fields \in FormLayouts
  /\ errNodes = <<NoNode, NoNode>>
  /\ SuccessDormant

\* the user changes the value of field i: the input listener,
\* clearFieldError (663)
Input(i, v) ==
  /\ UNCHANGED nonFormVars
  /\ v # fields[i].value
  /\ LET d == clearFieldError(FormDom([fields EXCEPT ![i].value = v], errNodes), i) IN
       /\ fields' = d.fields
       /\ errNodes' = d.nodes
  /\ lastForm' = [NoFormEvent EXCEPT !.ev = "input"]
  /\ UNCHANGED <<formSuccess, banner, bannersMade, formTimers, nValid, nResets>>

\* the form is submitted: the submit listener, handleFormSubmit (657)
Submit(throwAt) ==
  /\ UNCHANGED nonFormVars
  /\ LET r == handleFormSubmit(FormDom(fields, errNodes),
                               SuccessState(formSuccess, banner, bannersMade, formTimers),
                               throwAt)
     IN /\ r.valid => nValid < MaxSubmits
        /\ fields' = r.dom.fields
        /\ errNodes' = r.dom.nodes
        /\ formSuccess' = r.succ.success
        /\ banner' = r.succ.banner
        /\ bannersMade' = r.succ.made
        /\ formTimers' = r.succ.timers
        /\ nValid' = IF r.valid THEN nValid + 1 ELSE nValid
        /\ lastForm' = [NoFormEvent EXCEPT !.ev = "submit", !.ok = r.valid,
                                           !.prevented = r.prevented, !.threw = r.threw]
  /\ UNCHANGED nResets

\* the oldest timer of showFormSuccess is due: its callback runs
TimerFire ==
  /\ UNCHANGED nonFormVars
  /\ formTimers # <<>>
  /\ Head(formTimers).left = 0
  /\ LET t == Head(formTimers)
         r == resetCallback(fields, SuccessState(formSuccess, banner, bannersMade,
                                                 Tail(formTimers)), t)
     IN /\ fields' = r.fields
        /\ formSuccess' = r.succ.success
        /\ banner' = r.succ.banner
        /\ formTimers' = r.succ.timers
        /\ lastForm' = [NoFormEvent EXCEPT !.ev = "reset", !.el = t.el, !.age = t.age,
                                           !.behind = t.behind]
  /\ nResets' = nResets + 1
  /\ UNCHANGED <<errNodes, bannersMade, nValid>>

FormTick == (FORM_RESET_DELAY + TicksPerDelay - 1) \div TicksPerDelay

\* time passes, up to the moment the oldest pending timer is due
TickForm ==
  /\ UNCHANGED nonFormVars
  /\ formTimers # <<>>
  /\ Head(formTimers).left > 0
  /\ LET dt == Min(FormTick, Head(formTimers).left) IN
       formTimers' = [k \in DOMAIN formTimers |->
                        [formTimers[k] EXCEPT !.left = @ - dt, !.age = @ + dt]]
  /\ lastForm' = [NoFormEvent EXCEPT !.ev = "tick"]
  /\ UNCHANGED <<fields, errNodes, formSuccess, banner, bannersMade, nValid, nResets>>

NextForm ==
  \/ \E i \in DOMAIN fields : Blur(i)
  \/ \E i \in DOMAIN fields, v \in FormValues : Input(i, v)
  \/ \E k \in 0..Len(fields) : Submit(k)
  \/ TimerFire
  \/ TickForm

FormDormant ==
  /\ fields = <<>>
  /\ errNodes = <<>>
  /\ SuccessDormant

(***************************************************************************)
(* The specifications, one per feature: the features work on disjoint     *)
(* parts of the document.                                                 *)
(***************************************************************************)
(***************************************************************************)
(* Lazy loading of images (script.js 419-495).                            *)
(***************************************************************************)
\* an img[loading="lazy"] of the markup: whether it has a non-empty src
\* attribute, the state of its request, whether it carries the lazy-loaded
\* class, and how many load/error listener pairs loadImage has added
ImageStates ==
  [hasSrc : BOOLEAN, net : {"loading", "available", "broken"},
   loaded : BOOLEAN, listeners : {0}]

\* image.complete, 489
complete(img) == img.net # "loading"

\* loadImage without the test of image.complete (489-491)
loadImage_waitsForLoad(img) ==
  IF img.loaded THEN img
  ELSE IF ~img.hasSrc THEN img
  ELSE [img EXCEPT !.listeners = @ + 1]

\* loadImage, 468-495
loadImage(img) ==
  IF img.loaded THEN img
  ELSE IF ~img.hasSrc THEN img
  ELSE LET listening == [img EXCEPT !.listeners = @ + 1] IN
         IF complete(img) THEN [listening EXCEPT !.loaded = TRUE] ELSE listening

\* handleImageIntersection that keeps observing (without line 459)
handleImageIntersection_keepsObserving(imgs, obs, entries) ==
  [images |-> [i \in DOMAIN imgs |->
                 IF <<i, TRUE>> \in entries THEN loadImage(imgs[i]) ELSE imgs[i]],
   observed |-> obs,
   ran |-> { i \in DOMAIN imgs : <<i, TRUE>> \in entries }]

\* handleImageIntersection, 454-462; an entry is <<image, isIntersecting>>,
\* ran are the images loadImage was called on
handleImageIntersection(imgs, obs, entries) ==
  [images |-> [i \in DOMAIN imgs |->
                 IF <<i, TRUE>> \in entries THEN loadImage(imgs[i]) ELSE imgs[i]],
   observed |-> obs \ { i \in DOMAIN imgs : <<i, TRUE>> \in entries },
   ran |-> { i \in DOMAIN imgs : <<i, TRUE>> \in entries }]

\* initLazyLoading, 419-447
initLazyLoading(imgs, obs, withObserver) ==
  IF Len(imgs) = 0 THEN [images |-> imgs, observed |-> obs, ran |-> {}]
  ELSE IF withObserver
    THEN [images |-> imgs, observed |-> obs \cup DOMAIN imgs, ran |-> {}]
  ELSE [images |-> [i \in DOMAIN imgs |-> loadImage(imgs[i])], observed |-> obs,
        ran |-> DOMAIN imgs]

\* who: the images loadImage ran on or whose event fired; seen: the images
\* that were intersecting in the entries of the callback
NoLazyEvent == [ev |-> "load", who |-> {}, seen |-> {}]

\* no lazy image in the page
LazyDormant ==
  /\ images = <<>>
  /\ hasObserver = FALSE
  /\ observed = {}
  /\ handled = <<>>
  /\ lazyLog = 0
  /\ lastLazy = NoLazyEvent

ImageLists == UNION { [1..n -> ImageStates] : n \in 0..MaxImages }

InitLazy ==
  /\ images \in ImageLists
  /\ hasObserver \in BOOLEAN
  /\ observed = {}
  /\ handled = [i \in DOMAIN images |-> 0]
  /\ lazyLog = 0
  /\ lastLazy = NoLazyEvent

\* initializeFeatures, 880-893 (the lazy loading's part)
InitializeLazy ==
  /\ UNCHANGED nonLazyVars
  /\ initRuns = 0
  /\ initRuns' = 1
  /\ LET r == initLazyLoading(images, observed, hasObserver) IN
       /\ images' = r.images
       /\ observed' = r.observed
       /\ handled' = [i \in DOMAIN images |->
                        IF i \in r.ran THEN handled[i] + 1 ELSE handled[i]]
       /\ lastLazy' = [ev |-> "init", who |-> r.ran, seen |-> {}]
  /\ UNCHANGED <<hasObserver, lazyLog>>

\* the observer's callback runs with entries for some observed images,
\* one entry an image
Intersect(E, I) ==
  /\ UNCHANGED nonLazyVars
  /\ UNCHANGED initRuns
  /\ E # {} /\ E \subseteq observed /\ I \subseteq E
  /\ LET entries == { <<i, i \in I>> : i \in E }
         r == handleImageIntersection(images, observed, entries) IN
       /\ images' = r.images
       /\ observed' = r.observed
       /\ handled' = [i \in DOMAIN images |->
                        IF i \in r.ran THEN handled[i] + 1 ELSE handled[i]]
       /\ lastLazy' = [ev |-> "intersect", who |-> r.ran, seen |-> I]
  /\ UNCHANGED <<hasObserver, lazyLog>>

\* the request of image i completes: its load event fires (480-482)
ImageLoad(i) ==
  /\ UNCHANGED nonLazyVars
  /\ UNCHANGED initRuns
  /\ images[i].net = "loading"
  /\ images' = [images EXCEPT ![i].net = "available",
                              ![i].loaded = @ \/ images[i].listeners > 0]
  /\ lastLazy' = [ev |-> "imageLoad", who |-> {i}, seen |-> {}]
  /\ UNCHANGED <<hasObserver, observed, handled, lazyLog>>

\* the request of image i fails: its error event fires (484-486)
ImageError(i) ==
  /\ UNCHANGED nonLazyVars
  /\ UNCHANGED initRuns
  /\ images[i].net = "loading"
  /\ images' = [images EXCEPT ![i].net = "broken"]
  /\ lazyLog' = lazyLog + images[i].listeners
  /\ lastLazy' = [ev |-> "imageError", who |-> {i}, seen |-> {}]
  /\ UNCHANGED <<hasObserver, observed, handled>>

NextLazy ==
  \/ InitializeLazy
  \/ \E E \in SUBSET DOMAIN images : \E I \in SUBSET E : Intersect(E, I)
  \/ \E i \in DOMAIN images : ImageLoad(i)
  \/ \E i \in DOMAIN images : ImageError(i)

(***************************************************************************)
(* initializeFeatures as a whole (script.js 864-893): the six initializers *)
(* in their order, the elements they synthesize, and the try/catch of      *)
(* every initializer and handler.  A failure is a statement that throws:   *)
(* the insertBefore of 195 on a page without .header-container around the  *)
(* nav, or any statement, chosen by the environment (`fault`).             *)
(***************************************************************************)
Initializers ==
  <<"initSmoothScrolling", "initMobileMenu", "initLazyLoading",
    "initScrollToTop", "initFormValidation", "initKeyboardAccessibility">>

\* the listeners and timer callbacks the initializers register;
\* imageLoadListener and imageErrorListener are the anonymous listeners
\* loadImage adds to an image (480, 484), resetCallback the anonymous timer
\* callback of showFormSuccess (807)
Handlers ==
  {"handleSmoothScroll", "toggleMobileMenu", "handleOutsideClick",
   "handleEscapeKey", "handleResize", "handleImageIntersection", "handleScroll",
   "scrollToTop", "handleFormSubmit", "validateField", "clearFieldError",
   "handleSkipLink", "resetCallback", "imageLoadListener", "imageErrorListener"}

\* the functions whose whole body is a try block with a catch that logs
Wrapped(f) ==
  f \in {"initSmoothScrolling", "initMobileMenu", "initLazyLoading",
         "initScrollToTop", "initFormValidation", "initKeyboardAccessibility",
         "handleSmoothScroll", "toggleMobileMenu", "handleScroll", "scrollToTop"}

\* where a statement of f can throw: inside its try block, or outside of
\* one.  handleFormSubmit calls event.preventDefault() (675) ahead of its
\* try block (677-692)
FaultSites(f) ==
  IF Wrapped(f) THEN {"inTry"}
  ELSE IF f = "handleFormSubmit" THEN {"outsideTry", "inTry"}
  ELSE {"outsideTry"}

\* the synthesized elements a document holds
PageOf(d, btn, mst, sst) ==
  [toggles |-> IF d.toggleMarkup THEN 1 ELSE 0, menuStyles |-> mst,
   scrollBtns |-> btn, scrollStyles |-> sst]

NoPage == [toggles |-> 0, menuStyles |-> 0, scrollBtns |-> 0, scrollStyles |-> 0]

\* addMobileMenuStyles without the test of 238-240
addMobileMenuStyles_unguarded(n) == n + 1

\* addMobileMenuStyles, 237-314: the number of #mobile-menu-styles blocks
addMobileMenuStyles(n) == IF n > 0 THEN n ELSE n + 1

\* addScrollToTopStyles, 542-601: the number of #scroll-to-top-styles blocks
addScrollToTopStyles(n) == IF n > 0 THEN n ELSE n + 1

\* initMobileMenu, 181-211, on the elements of the page
initMobileMenuElements(d, p) ==
  IF ~d.hasHeader \/ ~d.hasNav THEN [page |-> p, threw |-> FALSE]
  ELSE IF p.toggles > 0 THEN [page |-> p, threw |-> FALSE]
  ELSE LET styled == [p EXCEPT !.menuStyles = addMobileMenuStyles(@)] IN
         IF d.container = "parent"
           THEN [page |-> [styled EXCEPT !.toggles = @ + 1], threw |-> FALSE]
           ELSE [page |-> styled, threw |-> TRUE]

\* initScrollToTop, 504-521, on the elements of the page
initScrollToTopElements(p) ==
  IF p.scrollBtns > 0 THEN [page |-> p, threw |-> FALSE]
  ELSE [page |-> [p EXCEPT !.scrollStyles = addScrollToTopStyles(@),
                           !.scrollBtns = @ + 1],
        threw |-> FALSE]

\* the initializer `name` runs on page p of document d; with `fault` its
\* first statement throws
RunInitializer(name, d, p, fault) ==
  IF fault THEN [page |-> p, threw |-> TRUE]
  ELSE IF name = "initMobileMenu" THEN initMobileMenuElements(d, p)
  ELSE IF name = "initScrollToTop" THEN initScrollToTopElements(p)
  ELSE [page |-> p, threw |-> FALSE]

\* failed: a statement of the function threw; caught: its own catch block
\* caught and logged that
NoInitEvent == [ev |-> "load", name |-> "none", failed |-> FALSE, caught |-> FALSE]

InitDormant ==
  /\ page = NoPage
  /\ pc = 0
  /\ attempted = <<>>
  /\ lastInit = NoInitEvent

InitFeatures ==
  /\ doc \in Documents
  /\ \E btn \in 0..1, mst \in 0..1, sst \in 0..1 : page = PageOf(doc, btn, mst, sst)
  /\ pc = 0
  /\ attempted = <<>>
  /\ lastInit = NoInitEvent

\* init, 864-875: initializeFeatures is entered (the script may be included
\* more than once)
BeginFeatures ==
  /\ UNCHANGED nonInitVars
  /\ pc = 0 /\ initRuns < MaxRuns
  /\ pc' = 1
  /\ attempted' = <<>>
  /\ lastInit' = [NoInitEvent EXCEPT !.ev = "begin"]
  /\ UNCHANGED <<doc, initRuns, page, tabindex>>

\* initializeFeatures, 880-893: the next initializer runs.  What it throws
\* is caught and logged inside it when it is wrapped; otherwise it is caught
\* at 890, logged, and the remaining initializers are skipped.
InitializerStep(fault) ==
  /\ UNCHANGED nonInitVars
  /\ pc \in 1..Len(Initializers)
  /\ LET name == Initializers[pc]
         r == RunInitializer(name, doc, page, fault)
         escapes == r.threw /\ ~Wrapped(name) IN
       /\ page' = r.page
       /\ attempted' = Append(attempted, name)
       /\ lastInit' = [ev |-> "initializer", name |-> name, failed |-> r.threw,
                       caught |-> r.threw /\ Wrapped(name)]
       /\ pc' = IF pc = Len(Initializers) \/ escapes THEN 0 ELSE pc + 1
       /\ initRuns' = IF pc = Len(Initializers) \/ escapes THEN initRuns + 1 ELSE initRuns
       /\ tabindex' = IF name = "initKeyboardAccessibility" /\ ~r.threw
                        THEN initKeyboardAccessibility(tabindex, cards)
                        ELSE tabindex
  /\ UNCHANGED doc

\* the tabindex attributes after handler h has run: handleSkipLink moves
\* the focus to #main (851-853), handleSmoothScroll to the target of the
\* nav link that was clicked when its fragment resolves (166-168); a
\* statement that throws does so ahead of the focus move
HandlerTabindex(h, fault, ti) ==
  IF fault # "none" THEN {ti}
  ELSE IF h = "handleSkipLink"
    THEN {[ti EXCEPT !.main =
             handleSkipLink(LinkState(menu, url, focus, scrollReq, prevented,
                                      ti.main)).tabindex]}
  ELSE IF h = "handleSmoothScroll"
    THEN {[ti EXCEPT !.section =
             handleSmoothScroll(LinkState(menu, url, focus, scrollReq, prevented,
                                          ti.section),
                                doc.hasHeader, t, geom).tabindex] : t \in Links}
  ELSE {ti}

\* a registered handler runs; with a fault a statement of it throws at
\* that site: the catch of the handler's try block catches and logs what
\* is thrown inside the block, anything else leaves the handler
HandlerStep(h, fault) ==
  /\ UNCHANGED nonInitVars
  /\ pc = 0 /\ initRuns > 0
  /\ fault \in {"none"} \cup FaultSites(h)
  /\ lastInit' = [ev |-> "handler", name |-> h, failed |-> fault # "none",
                  caught |-> fault = "inTry"]
  /\ tabindex' \in HandlerTabindex(h, fault, tabindex)
  /\ UNCHANGED <<doc, initRuns, page, pc, attempted>>

NextInit ==
  \/ BeginFeatures
  \/ \E fault \in BOOLEAN : InitializerStep(fault)
  \/ \E h \in Handlers, fault \in {"none", "inTry", "outsideTry"} :
       HandlerStep(h, fault)

(***************************************************************************)
(* debounce (script.js 60-75): the two debounced functions of the page,    *)
(* the resize listener of 207 and the scroll listener of 514, with the     *)
(* browser's timers that they set and clear.                               *)
(***************************************************************************)
DebouncedFuncs == {"handleResize", "handleScroll"}

\* clearTimeout(id): the timer of that id, if it is pending, is removed
clearTimeout(timers, id) == { t \in timers : t.id # id }

\* the closures of the debounced functions: timeoutId of each (0 is null);
\* the browser's pending timers and the id the next setTimeout returns
NoDebounce ==
  [timeoutId |-> [f \in DebouncedFuncs |-> 0], timers |-> {}, nextId |-> 1]

\* debounced without the clearTimeout of 66-68
debouncedCall_noClear(d, f, args, wait) ==
  [timeoutId |-> [d.timeoutId EXCEPT ![f] = d.nextId],
   timers |-> d.timers \cup {[id |-> d.nextId, fn |-> f, left |-> wait, args |-> args]},
   nextId |-> d.nextId + 1]

\* debounced(...args), 63-74, of the closure that wraps f
debouncedCall(d, f, args, wait) ==
  LET kept == IF d.timeoutId[f] # 0 THEN clearTimeout(d.timers, d.timeoutId[f])
              ELSE d.timers IN
    [timeoutId |-> [d.timeoutId EXCEPT ![f] = d.nextId],
     timers |-> kept \cup {[id |-> d.nextId, fn |-> f, left |-> wait, args |-> args]},
     nextId |-> d.nextId + 1]

\* the callback of timer t, 70-73, up to the call of func
timerCallback(d, t) ==
  [d EXCEPT !.timeoutId[t.fn] = 0, !.timers = d.timers \ {t}]

NoDebounceEvent == [ev |-> "load", fn |-> "none", args |-> 0, waited |-> 0]

InitDebounce ==
  /\ deb = NoDebounce
  /\ triggers = [f \in DebouncedFuncs |-> 0]
  /\ invocations = [f \in DebouncedFuncs |-> 0]
  /\ bursts = [f \in DebouncedFuncs |-> 0]
  /\ owed = [f \in DebouncedFuncs |-> FALSE]
  /\ sinceTrigger = [f \in DebouncedFuncs |-> 0]
  /\ lastDeb = NoDebounceEvent

\* a resize / scroll event: the debounced function that wraps f is called
\* with it; the event is identified by its number
Trigger(f) ==
  /\ UNCHANGED nonDebounceVars
  /\ triggers[f] < MaxTriggers
  /\ triggers' = [triggers EXCEPT ![f] = @ + 1]
  /\ deb' = debouncedCall(deb, f, triggers[f] + 1, DEBOUNCE_DELAY)
  /\ bursts' = [bursts EXCEPT ![f] = IF owed[f] THEN @ ELSE @ + 1]
  /\ owed' = [owed EXCEPT ![f] = TRUE]
  /\ sinceTrigger' = [sinceTrigger EXCEPT ![f] = 0]
  /\ lastDeb' = [ev |-> "trigger", fn |-> f, args |-> triggers[f] + 1, waited |-> 0]
  /\ UNCHANGED invocations

\* a timer that is due fires: func is applied to the arguments it holds
TimerDue(t) ==
  /\ UNCHANGED nonDebounceVars
  /\ t \in deb.timers /\ t.left = 0
  /\ deb' = timerCallback(deb, t)
  /\ invocations' = [invocations EXCEPT ![t.fn] = @ + 1]
  /\ owed' = [owed EXCEPT ![t.fn] = FALSE]
  /\ lastDeb' = [ev |-> "invoke", fn |-> t.fn, args |-> t.args,
                 waited |-> sinceTrigger[t.fn]]
  /\ UNCHANGED <<triggers, bursts, sinceTrigger>>

\* the time that passes in one step: DebounceTick, or less when a pending
\* timer is due sooner
TimeStep(timers) ==
  LET lefts == {DebounceTick} \cup { t.left : t \in timers } IN
    CHOOSE s \in lefts : \A o \in lefts : s <= o

\* time passes, up to the moment the earliest pending timer is due
TickDebounce ==
  /\ UNCHANGED nonDebounceVars
  /\ deb.timers # {}
  /\ \A t \in deb.timers : t.left > 0
  /\ deb' = [deb EXCEPT !.timers = { [t EXCEPT !.left = @ - TimeStep(deb.timers)] :
                                       t \in deb.timers }]
  /\ sinceTrigger' = [f \in DebouncedFuncs |->
                        Min(sinceTrigger[f] + TimeStep(deb.timers), DEBOUNCE_DELAY)]
  /\ lastDeb' = NoDebounceEvent
  /\ UNCHANGED <<triggers, invocations, bursts, owed>>

NextDebounce ==
  \/ \E f \in DebouncedFuncs : Trigger(f)
  \/ \E t \in deb.timers : TimerDue(t)
  \/ TickDebounce

\* no debounced function is ever called
DebounceDormant == InitDebounce

InitMenuPage ==
  /\ InitMenu /\ ScrollDormant /\ FormDormant /\ LazyDormant /\ InitDormant
  /\ DebounceDormant

SpecMenu == InitMenuPage /\ [][NextMenu]_vars

\* the pages of the focus moves: a header with a nav, or neither, at the
\* breakpoint's width, with any markup of the tabindex attributes
FocusDocuments ==
  { d \in Documents : d.hasNav = d.hasHeader /\ d.container # "other"
                       /\ ~d.toggleMarkup }

InitFocusPage ==
  /\ doc \in FocusDocuments /\ initRuns = 0
  /\ menu = MenuOf(doc) /\ menuListeners = FALSE /\ width = MOBILE_BREAKPOINT
  /\ resizeTimer = NoTimer /\ click = NoClick /\ resizeEventW = 0 /\ trip = "none"
  /\ lastMenu = NoMenuEvent /\ LinkIdle
  /\ tabindex \in Tabindexes
  /\ cards \in CardSets(tabindex)
  /\ ScrollDormant /\ FormDormant /\ LazyDormant /\ InitDormant /\ DebounceDormant

SpecFocus == InitFocusPage /\ [][NextMenu]_vars

InitScrollPage ==
  InitScroll /\ initRuns = 0 /\ MenuDormant /\ FormDormant /\ LazyDormant /\ InitDormant
  /\ DebounceDormant

SpecScroll == InitScrollPage /\ [][NextScroll]_vars

InitFieldPage ==
  InitField /\ initRuns = 1 /\ MenuDormant /\ ScrollDormant /\ LazyDormant /\ InitDormant
  /\ DebounceDormant

InitFormPage ==
  InitForm /\ initRuns = 1 /\ MenuDormant /\ ScrollDormant /\ LazyDormant /\ InitDormant
  /\ DebounceDormant

InitLazyPage ==
  InitLazy /\ initRuns = 0 /\ MenuDormant /\ ScrollDormant /\ FormDormant /\ InitDormant
  /\ DebounceDormant

\* the menu's variables other than the markup are those of a page that no
\* event has reached
InitFeaturesPage ==
  /\ InitFeatures /\ initRuns = 0
  /\ menu = MenuOf(doc) /\ menuListeners = FALSE /\ width = MOBILE_BREAKPOINT
  /\ resizeTimer = NoTimer /\ click = NoClick /\ resizeEventW = 0 /\ trip = "none"
  /\ lastMenu = NoMenuEvent /\ LinkIdle
  /\ tabindex = PlainTabindex /\ cards \in {{}, {"section", "main"}}
  /\ ScrollDormant /\ FormDormant /\ LazyDormant /\ DebounceDormant

InitDebouncePage ==
  /\ InitDebounce /\ initRuns = 1
  /\ MenuDormant /\ ScrollDormant /\ FormDormant /\ LazyDormant /\ InitDormant

SpecDebounce == InitDebouncePage /\ [][NextDebounce]_vars

SpecInit == InitFeaturesPage /\ [][NextInit]_vars

SpecLazy == InitLazyPage /\ [][NextLazy]_vars

SpecForm == InitFormPage /\ [][NextForm]_vars

\* a contact form of one required email field that the markup prefills
InitFairPage ==
  /\ fields = <<NewField("email", TRUE, <<"a","@","b",".","c","o">>, 1)>>
  /\ errNodes = <<NoNode>>
  /\ SuccessDormant
  /\ initRuns = 1 /\ MenuDormant /\ ScrollDormant /\ LazyDormant /\ InitDormant
  /\ DebounceDormant

\* the browser runs a timer that is due and time does not stand still
SpecFormFair ==
  InitFairPage /\ [][NextForm]_vars /\ WF_vars(TimerFire) /\ WF_vars(TickForm)

\* validateField applied to every field of the bounded input space
SpecField == InitFieldPage /\ [][NextField]_vars

(***************************************************************************)
(* Claims about the mobile menu.                                          *)
(***************************************************************************)
\* the classes and the attribute the menu shows
MenuLook(m) == <<m.navOpen, m.toggleOpen, m.aria>>

\* the menu as initialization leaves it: the initial closed state
InitialMenu == initMobileMenu(doc, MenuOf(doc)).menu

\* C1: after a toggle click that opens the menu from its initial closed
\* state and a toggle click that closes it again, the open class of the
\* nav, the open class of the toggle and aria-expanded are what they were
\* in the initial closed state.
C1_RoundTrip ==
  (menuListeners /\ click = NoClick /\ trip = "closed")
  => MenuLook(menu) = MenuLook(InitialMenu)

\* what holds instead: the classes return to their initial state, and so
\* does aria-expanded unless the toggle of the markup carried none
C1_RoundTripWhenAriaSet ==
  (menuListeners /\ click = NoClick /\ trip = "closed")
  => /\ menu.navOpen = InitialMenu.navOpen
     /\ menu.toggleOpen = InitialMenu.toggleOpen
     /\ InitialMenu.aria # "absent" => menu.aria = InitialMenu.aria

\* C2: when all listeners of a click on the toggle have run, the menu has
\* flipped exactly once; the toggle's listener has flipped it and the
\* document's listener has left that as it was.
C2_ToggleFlipsOnce ==
  (menuListeners /\ lastMenu.target = "toggle"
     /\ lastMenu.ev \in {"targetListener", "click"})
  => /\ menu.navOpen = ~lastMenu.wasOpen
     /\ menu.toggleOpen = menu.navOpen
     /\ menu.aria = (IF menu.navOpen THEN "true" ELSE "false")

C2_Witness ==
  /\ menuListeners /\ lastMenu.ev = "click" /\ lastMenu.target = "toggle"
  /\ ~lastMenu.wasOpen /\ menu.navOpen

IsEscape(e) == e.key \in {"Escape", "Esc"} /\ e.keyCode = 27

C3_ClosedAfter ==
  /\ (lastMenu.ev = "keydown" /\ IsEscape(lastMenu) /\ lastMenu.wasOpen)
       => ~menu.navOpen
  /\ (lastMenu.ev = "click" /\ lastMenu.target = "outside" /\ lastMenu.wasOpen)
       => ~menu.navOpen

C3_InsideIsNotOutside ==
  (click.phase = "document" /\ click.target \in {"toggle", "nav"} \cup Links)
  => menu' = menu

\* C3: with the menu open, an Escape keydown and a click outside both the
\* nav and the toggle leave the menu closed; the document's click listener
\* changes nothing when the click's target is inside the nav or the toggle.
C3_EscapeAndOutside == []C3_ClosedAfter /\ [][C3_InsideIsNotOutside]_vars

C3_Witness ==
  /\ lastMenu.ev = "keydown" /\ lastMenu.key = "Esc" /\ lastMenu.wasOpen
  /\ ~menu.navOpen /\ menu.aria = "false"

\* C4: when the debounced handler of a resize event of width >= 768 has
\* run, the menu is closed, whatever happened since the event.
C4_ResizeCloses ==
  /\ (resizeTimer # NoTimer) => (resizeEventW = width)
  /\ (lastMenu.ev = "resizeFire" /\ lastMenu.w >= MOBILE_BREAKPOINT)
       => (~menu.navOpen /\ ~menu.toggleOpen /\ menu.aria # "true")

C4_Witness ==
  /\ lastMenu.ev = "resizeFire" /\ lastMenu.w = MOBILE_BREAKPOINT
  /\ lastMenu.wasOpen /\ ~menu.navOpen

(***************************************************************************)
(* Claims about the contact form.                                         *)
(***************************************************************************)
NotAnEmail == <<"n","o","t","-","a","n","-","e","m","a","i","l">>
ABCo == <<"a","@","b",".","c","o">>

\* s without its leading and trailing whitespace
Trimmed(s) ==
  LET ink == { k \in 1..Len(s) : ~isWhitespace(s[k]) } IN
    IF ink = {} THEN <<>>
    ELSE SubSeq(s, CHOOSE k \in ink : \A j \in ink : k <= j,
                   CHOOSE k \in ink : \A j \in ink : k >= j)

\* local@domain.tld: no whitespace, one @ with something before it, and
\* after it a dot with something before and something after
EmailShape(v) ==
  /\ \A k \in 1..Len(v) : ~isWhitespace(v[k])
  /\ Cardinality({ k \in 1..Len(v) : v[k] = "@" }) = 1
  /\ \E a \in 2..Len(v) :
       /\ v[a] = "@"
       /\ \E d \in (a + 2)..(Len(v) - 1) : v[d] = "."

PhoneAllowed == {"0", "1", "2", "3", "4", "5", "6", "7", "8", "9",
                 "+", "-", "(", ")"} \cup WhiteSpace

\* the error the three rules give a field of type t holding value raw
ExpectedError(t, required, raw) ==
  LET v == Trimmed(raw) IN
    IF required /\ v = <<>> THEN MsgRequired
    ELSE IF t = "email" /\ v # <<>> /\ ~EmailShape(v) THEN MsgEmail
    ELSE IF t = "tel" /\ v # <<>> /\ (\E k \in 1..Len(v) : v[k] \notin PhoneAllowed)
      THEN MsgPhone
    ELSE NoNode

\* C5: validateField gives a field the error of the first rule that fails,
\* in the order required, email, phone, and returns true exactly when none
\* fails; an empty required email field is 'required', 'not-an-email' is
\* an email error and 'a@b.co' is no error.
C5_FirstFailureWins ==
  (lastForm.ev = "blur") =>
    LET f == fields[lastForm.field]
        e == ExpectedError(f.type, f.required, f.value)
    IN  /\ lastForm.ok = (e = NoNode)
        /\ errNodes[f.parent] = e
        /\ f.error = (e # NoNode)
        /\ f.ariaInvalid = (e # NoNode)
        /\ (f.type = "email" /\ f.required /\ f.value = <<>>)
             => errNodes[f.parent] = MsgRequired
        /\ (f.type = "email" /\ f.value = NotAnEmail)
             => errNodes[f.parent] = MsgEmail
        /\ (f.type = "email" /\ f.value = ABCo) => (lastForm.ok /\ ~f.error)

C5_Witness ==
  /\ lastForm.ev = "blur" /\ fields[1].type = "email" /\ fields[1].value = NotAnEmail
  /\ errNodes[1] = MsgEmail /\ fields[1].error /\ ~lastForm.ok

SomeFieldInvalid ==
  \E i \in DOMAIN fields :
    ExpectedError(fields[i].type, fields[i].required, fields[i].value) # NoNode

C6_Prevented == (lastForm.ev = "submit") => lastForm.prevented

C6_InvalidShowsNothing ==
  (lastForm'.ev = "submit" /\ SomeFieldInvalid)
  => /\ UNCHANGED <<formSuccess, banner, bannersMade, formTimers, nValid>>
     /\ ~lastForm'.ok

\* C6: every submit event has its default prevented, also when validation
\* throws; a submit of a form with an invalid field leaves the success
\* class, the banner and the timers as they were.
C6_SubmitAlwaysPrevented == []C6_Prevented /\ [][C6_InvalidShowsNothing]_vars

C6_Witness ==
  /\ lastForm.ev = "submit" /\ lastForm.threw /\ lastForm.prevented
  /\ ~formSuccess /\ formTimers = <<>>

AllFieldsEmpty == \A i \in DOMAIN fields : fields[i].value = <<>>
AllFieldsDefault == \A i \in DOMAIN fields : fields[i].value = fields[i].default

\* C7 as claimed: after a valid submission the banner is displayed and the
\* form carries the success class; 5000 ms after that submission the
\* fields are cleared and the banner is removed.
C7_FieldsCleared ==
  /\ (lastForm.ev = "submit" /\ lastForm.ok) => (formSuccess /\ banner # 0)
  /\ (lastForm.ev = "reset")
       => (AllFieldsEmpty /\ banner # lastForm.el /\ lastForm.age = 5000)

\* C7 as amended: after a valid submission the banner is displayed, the
\* form carries the success class and a timer of 5000 ms holds that
\* banner; when the timer of a submission fires, 5000 ms after it, every
\* field is back at its default value (empty where the markup gives none)
\* and the banner that submission displayed is not in the form.
C7_FormReset ==
  /\ (lastForm.ev = "submit" /\ lastForm.ok)
       => /\ formSuccess /\ banner # 0
          /\ formTimers # <<>>
          /\ formTimers[Len(formTimers)].left = 5000
          /\ formTimers[Len(formTimers)].el = banner
  /\ \A k \in DOMAIN formTimers : formTimers[k].left + formTimers[k].age = 5000
  /\ (lastForm.ev = "reset")
       => /\ AllFieldsDefault
          /\ \A i \in DOMAIN fields : fields[i].default = <<>> => fields[i].value = <<>>
          /\ banner # lastForm.el
          /\ lastForm.age = 5000

C7_Witness ==
  /\ lastForm.ev = "reset" /\ lastForm.age = 5000 /\ banner = 0 /\ ~formSuccess
  /\ AllFieldsDefault /\ fields[1].default # <<>>

C8_Counted ==
  /\ nValid = nResets + Len(formTimers)
  /\ (formTimers = <<>>) => (nResets = nValid)
  /\ \A k \in DOMAIN formTimers : formTimers[k].left \in 0..5000

C8_NothingCancels ==
  \/ formTimers' = formTimers
  \/ /\ lastForm'.ev = "submit" /\ lastForm'.ok
     /\ Len(formTimers') = Len(formTimers) + 1
     /\ SubSeq(formTimers', 1, Len(formTimers)) = formTimers
     /\ nValid' = nValid + 1 /\ nResets' = nResets
  \/ /\ lastForm'.ev = "reset"
     /\ Head(formTimers).left = 0
     /\ formTimers' = Tail(formTimers)
     /\ nResets' = nResets + 1 /\ nValid' = nValid
  \/ /\ lastForm'.ev = "tick"
     /\ Len(formTimers') = Len(formTimers)
     /\ \A k \in DOMAIN formTimers :
          /\ formTimers'[k].el = formTimers[k].el
          /\ formTimers[k].left - formTimers'[k].left
               = formTimers[1].left - formTimers'[1].left
          /\ formTimers'[k].left >= 0

\* C8: every valid submission starts a timer of its own; nothing cancels
\* or restarts a pending timer: a step leaves the timers alone, or is a
\* submission that adds one, or is time passing for all of them, or is the
\* oldest one firing when it is due; so each fires once and the resets
\* counted are the valid submissions less the timers still pending.
C8_TimersNeverCanceled == []C8_Counted /\ [][C8_NothingCancels]_vars

\* two valid submissions, the second inside the window of the first, and
\* both timers have fired
C8_Witness ==
  /\ lastForm.ev = "reset" /\ lastForm.behind = 1 /\ lastForm.age = 5000
  /\ nResets = 2 /\ nValid = 2

(***************************************************************************)
(* Claims about the scroll-to-top button.                                 *)
(***************************************************************************)
\* C9: each run of the scroll handler (at initialization and when the
\* debounce timer fires) leaves the visible class present if the offset is
\* > 300 and absent if it is <= 300; so absent at 0 and at exactly 300.
C9_VisibleIffPast300 ==
  (lastScroll.ev \in {"init", "scrollFire"})
  => /\ scrollBtn.exists
     /\ scrollBtn.visible = (lastScroll.off > 300)
     /\ lastScroll.off \in {0, 300} => ~scrollBtn.visible

C9_Witness ==
  lastScroll.ev = "scrollFire" /\ lastScroll.off = 300 /\ ~scrollBtn.visible

C10_Quiescent ==
  /\ (lastScroll.ev = "init") => (scrollBtn.visible = (offset > 300))
  /\ (initRuns > 0 /\ scrollTimer = NoTimer) => (scrollBtn.visible = (offset > 300))
  /\ (scrollTimer # NoTimer) => (scrollTimer + sinceScroll = 150)

C10_OnlyHandlerSets ==
  (scrollBtn' # scrollBtn) => (lastScroll'.ev \in {"init", "scrollFire"})

\* C10: the class is computed at initialization without a scroll event;
\* a pending debounce timer fires 150 ms after the last scroll event, and
\* whenever none is pending the class equals (offset > 300); only the
\* handler (at initialization or when the timer fires) changes the class.
C10_VisibilityTracksOffset == []C10_Quiescent /\ [][C10_OnlyHandlerSets]_vars

C10_Witness ==
  lastScroll.ev = "init" /\ offset > 300 /\ scrollBtn.visible /\ scrollTimer = NoTimer

(***************************************************************************)
(* Claims about the nav links.                                            *)
(***************************************************************************)
\* the fragment of the link's href is the id of an element of the page
FragmentResolves(t) == t = "link_ok"

C11_LinkClick ==
  (click.phase = "target" /\ click.target \in Links)
  => IF FragmentResolves(click.target)
       THEN /\ prevented'
            /\ scrollReq'.behavior = "smooth"
            /\ url' = Href(click.target)
            /\ ~menu'.navOpen /\ ~menu'.toggleOpen
       ELSE /\ ~prevented'
            /\ scrollReq' = NoRequest
            /\ url' = url
            /\ menu' = menu
            /\ focus' = focus

\* C11: the click handler of a nav link prevents the default, requests the
\* scroll, pushes the fragment to the URL and leaves the menu closed if the
\* fragment of the href resolves to an element, and otherwise does none of
\* these and leaves URL, menu and focus as they were.
C11_ResolvedIffHandled == [][C11_LinkClick]_vars

C11_Witness ==
  /\ lastMenu.ev = "targetListener" /\ lastMenu.target = "link_ok"
  /\ lastMenu.wasOpen /\ ~menu.navOpen
  /\ prevented /\ url = "#services" /\ scrollReq.behavior = "smooth"

\* the offset of the claim: the header's height, 80 without a header
ExpectedOffset(hasHeader, h) == IF hasHeader THEN h ELSE 80

\* C12: once the handler of a resolved nav-link click has run, the position
\* it requested is the target's viewport top + the page offset - offset,
\* that is `offset` pixels above the target's top in the document, where
\* offset is the header's height, and 80 only when there is no header.
C12_RequestedPosition ==
  /\ (click.phase = "document" /\ click.target = "link_ok")
       => /\ scrollReq.top = geom.top + geom.y - ExpectedOffset(doc.hasHeader, geom.h)
          /\ (geom.top + geom.y) - scrollReq.top
               = ExpectedOffset(doc.hasHeader, geom.h)
  /\ \A hasHeader \in BOOLEAN, h \in HeaderHeights :
       getScrollOffset(hasHeader, h) = ExpectedOffset(hasHeader, h)

C12_Witness ==
  /\ click.phase = "document" /\ click.target = "link_ok"
  /\ geom = [top |-> -40, y |-> 120, h |-> 64]
  /\ scrollReq = [top |-> 16, behavior |-> "smooth"]

\* C20: after initialization, whatever clicks, keys and resizes follow, the
\* nav carries the open class iff the toggle carries it iff the toggle's
\* aria-expanded is "true".
C20_MenuCoherent ==
  (initRuns > 0)
  => /\ menu.navOpen = menu.toggleOpen
     /\ menu.toggleOpen = (menu.aria = "true")

C20_Witness ==
  /\ initRuns > 0 /\ trip = "off" /\ url = "#services"
  /\ menu.navOpen /\ menu.toggleOpen /\ menu.aria = "true"

(***************************************************************************)
(* Claims about the lazy images.                                          *)
(***************************************************************************)
\* load-completion handling runs on image i in the step being taken
HandledNow(i) == lastLazy'.ev \in {"init", "intersect"} /\ i \in lastLazy'.who

\* the load event of image i fires in the step being taken
LoadEventNow(i) == lastLazy'.ev = "imageLoad" /\ i \in lastLazy'.who

C13_CompleteIsMarked(i) ==
  (HandledNow(i) /\ complete(images[i])) => images'[i].loaded

C13_CompleteWithSrcIsMarked(i) ==
  /\ (HandledNow(i) /\ complete(images[i]) /\ images[i].hasSrc) => images'[i].loaded
  /\ (HandledNow(i) /\ ~images[i].hasSrc) => images'[i] = images[i]

C13_Otherwise(i) ==
  \* an image that is not complete is not marked by the handling itself
  /\ (HandledNow(i) /\ ~complete(images[i])) => images'[i].loaded = images[i].loaded
  \* a mark appears only at the handling of a complete image or at a load event
  /\ (images'[i].loaded /\ ~images[i].loaded)
       => \/ HandledNow(i) /\ complete(images[i])
          \/ LoadEventNow(i)
  \* an error event marks nothing
  /\ (lastLazy'.ev = "imageError")
       => /\ images'[i].loaded = images[i].loaded
          /\ lazyLog' >= lazyLog
  \* handling an image that is marked changes nothing
  /\ (HandledNow(i) /\ images[i].loaded) => images'[i] = images[i]
  \* the mark is never removed
  /\ images[i].loaded => images'[i].loaded

\* C13 as claimed: load-completion handling marks every image that is
\* complete when it runs, in that same step; an image that is not complete
\* is marked only by its later load event; an error event marks nothing;
\* handling a marked image changes nothing; no mark is ever removed.
C13_LoadedMarks ==
  [][\A i \in DOMAIN images : C13_CompleteIsMarked(i) /\ C13_Otherwise(i)]_vars

\* C13 as amended: the same, where the complete image that handling marks
\* in that same step is one with a non-empty src attribute; handling
\* changes nothing on an image without one, complete or not.
C13_LoadedMarksWithSrc ==
  [][\A i \in DOMAIN images : C13_CompleteWithSrcIsMarked(i) /\ C13_Otherwise(i)]_vars

C13_Witness ==
  /\ lastLazy.ev = "intersect"
  /\ \E i \in lastLazy.who :
       /\ images[i].loaded /\ images[i].net = "available" /\ images[i].listeners = 1
  /\ \E j \in DOMAIN images : ~images[j].hasSrc /\ handled[j] = 1 /\ ~images[j].loaded

C14_Observing ==
  /\ (hasObserver /\ initRuns > 0)
       => \A i \in DOMAIN images :
            /\ handled[i] <= 1
            /\ (handled[i] = 0) = (i \in observed)
  /\ (~hasObserver /\ initRuns > 0)
       => \A i \in DOMAIN images : handled[i] = 1 /\ i \notin observed
  /\ (initRuns = 0) => \A i \in DOMAIN images : handled[i] = 0

C14_HandledAtIntersection ==
  \A i \in DOMAIN images :
    /\ (handled'[i] # handled[i])
         => IF hasObserver
              THEN /\ lastLazy'.ev = "intersect" /\ i \in lastLazy'.seen
                   /\ i \in observed /\ i \notin observed'
              ELSE lastLazy'.ev = "init"
    /\ (lastLazy'.ev = "intersect" /\ i \notin lastLazy'.seen)
         => /\ (i \in observed') = (i \in observed)
            /\ handled'[i] = handled[i]

\* C14: with an observer every lazy image is observed from initialization
\* until load-completion handling has run on it; handling runs on an image
\* only in a callback in which it is intersecting, and it is unobserved in
\* that callback, so handling runs at most once an image; an image that is
\* not intersecting stays observed.  Without an observer handling runs on
\* every lazy image during initialization.
C14_ObserveThenHandleOnce == []C14_Observing /\ [][C14_HandledAtIntersection]_vars

C14_Witness ==
  /\ hasObserver /\ lastLazy.ev = "intersect"
  /\ \E i \in lastLazy.seen : handled[i] = 1 /\ i \notin observed
  /\ \E j \in observed : handled[j] = 0

(***************************************************************************)
(* Claims about initializeFeatures.                                       *)
(***************************************************************************)
\* the initializers a run has called are the first ones of the six, in order
AttemptedInOrder ==
  /\ (pc = 0 /\ initRuns > 0) => attempted = Initializers
  /\ (pc > 0) => attempted = SubSeq(Initializers, 1, pc - 1)

\* C15: a failure inside any initializer or any event handler is caught
\* and logged inside it and does not propagate out of it, and every run of
\* initializeFeatures calls all six initializers in their order, whichever
\* of them fail.
C15_FailureIsolation ==
  /\ lastInit.failed => lastInit.caught
  /\ AttemptedInOrder

\* what holds instead: the same for the initializers and for the handlers
\* whose whole body is a try block
C15_WrappedFailureIsolation ==
  /\ (lastInit.failed /\ (lastInit.ev = "initializer" \/ Wrapped(lastInit.name)))
       => lastInit.caught
  /\ AttemptedInOrder

C16_AtMostOne ==
  /\ page.toggles <= 1 /\ page.scrollBtns <= 1
  /\ page.menuStyles <= 1 /\ page.scrollStyles <= 1

C16_Reused ==
  /\ page.toggles >= 1 => page'.toggles = page.toggles
  /\ page.scrollBtns >= 1 => page'.scrollBtns = page.scrollBtns
  /\ page.menuStyles >= 1 => page'.menuStyles = page.menuStyles
  /\ page.scrollStyles >= 1 => page'.scrollStyles = page.scrollStyles

\* C16: however many times initializeFeatures runs on a document, the
\* document holds at most one mobile-menu toggle, one scroll-to-top button,
\* one #mobile-menu-styles block and one #scroll-to-top-styles block, and
\* an element that is there, from the markup or synthesized, is not created
\* again.
C16_InitIdempotent == []C16_AtMostOne /\ [][C16_Reused]_vars

C16_Witness ==
  /\ initRuns = MaxRuns /\ pc = 0
  /\ doc.hasNav /\ doc.container # "parent" /\ ~doc.toggleMarkup
  /\ page.toggles = 0 /\ page.menuStyles = 1
  /\ page.scrollBtns = 1 /\ page.scrollStyles = 1

(***************************************************************************)
(* Claims about debounce.                                                  *)
(***************************************************************************)
\* the pending timers of the debounced function that wraps f
PendingOf(f) == { t \in deb.timers : t.fn = f }

C17_Pending ==
  \A f \in DebouncedFuncs :
    \* at most one pending timer, and timeoutId tells whether there is one
    /\ Cardinality(PendingOf(f)) <= 1
    /\ (deb.timeoutId[f] # 0) = (PendingOf(f) # {})
    \* it is the timer of the last trigger, due a full delay after it
    /\ \A t \in PendingOf(f) :
         /\ t.id = deb.timeoutId[f]
         /\ t.args = triggers[f]
         /\ t.left + sinceTrigger[f] = DEBOUNCE_DELAY
    \* one invocation a burst that is over, none yet for the current one
    /\ bursts[f] = invocations[f] + (IF owed[f] THEN 1 ELSE 0)
    /\ owed[f] = (PendingOf(f) # {})
    /\ invocations[f] <= triggers[f]

C17_Invoked ==
  /\ (lastDeb.ev = "invoke")
       => /\ lastDeb.waited = DEBOUNCE_DELAY
          /\ lastDeb.args = triggers[lastDeb.fn]
  /\ (lastDeb.ev = "trigger")
       => \E t \in PendingOf(lastDeb.fn) :
            t.left = DEBOUNCE_DELAY /\ t.args = lastDeb.args

C17_NotAtTrigger ==
  /\ (lastDeb'.ev = "trigger") => (invocations' = invocations)
  /\ (invocations' # invocations) => (lastDeb'.ev = "invoke")

C17_OncePerBurst == C17_Pending /\ C17_Invoked

\* C17: each debounced function has at most one pending timer; a trigger
\* cancels it and starts one of the full delay; the wrapped function is not
\* invoked at a trigger but only once the delay has passed since the last
\* trigger, once a burst, with the arguments of the last trigger, and never
\* more often than it was triggered.
C17_TrailingEdge == []C17_OncePerBurst /\ [][C17_NotAtTrigger]_vars

C17_Witness ==
  /\ lastDeb.ev = "invoke" /\ lastDeb.args = 2 /\ lastDeb.waited = DEBOUNCE_DELAY
  /\ triggers[lastDeb.fn] = 2 /\ bursts[lastDeb.fn] = 1 /\ invocations[lastDeb.fn] = 1
  /\ \E g \in DebouncedFuncs : g # lastDeb.fn /\ PendingOf(g) # {}

(***************************************************************************)
(* Claims about the validation of the whole form.                         *)
(***************************************************************************)
\* the error the rules give field i as it is now
ErrorOf(i) == ExpectedError(fields[i].type, fields[i].required, fields[i].value)

\* another field has the same parent element as field i
SharesParent(i) ==
  \E j \in DOMAIN fields : j # i /\ fields[j].parent = fields[i].parent

\* C18: after a submit every invalid field carries its error marker (class,
\* aria-invalid and its message in its parent element), every valid field
\* carries none, and the form is reported valid iff every field validates.
C18_AllFieldsMarked ==
  (lastForm.ev = "submit" /\ ~lastForm.threw)
  => /\ \A i \in DOMAIN fields :
          IF ErrorOf(i) # NoNode
            THEN /\ fields[i].error /\ fields[i].ariaInvalid
                 /\ errNodes[fields[i].parent] = ErrorOf(i)
            ELSE /\ ~fields[i].error /\ ~fields[i].ariaInvalid
                 /\ SharesParent(i) \/ errNodes[fields[i].parent] = NoNode
     /\ lastForm.ok = (\A i \in DOMAIN fields : ErrorOf(i) = NoNode)

\* what holds instead: class and aria-invalid of every field and the
\* verdict are as claimed; the message is for a field that has its parent
\* element to itself
C18_AllFieldsClassed ==
  (lastForm.ev = "submit" /\ ~lastForm.threw)
  => /\ \A i \in DOMAIN fields :
          /\ fields[i].error = (ErrorOf(i) # NoNode)
          /\ fields[i].ariaInvalid = (ErrorOf(i) # NoNode)
          /\ ~SharesParent(i) => errNodes[fields[i].parent] = ErrorOf(i)
     /\ lastForm.ok = (\A i \in DOMAIN fields : ErrorOf(i) = NoNode)

\* the field a validation run or an input event is about shows what the
\* rules give its value after the step
Recomputed(i) ==
  LET e == ExpectedError(fields'[i].type, fields'[i].required, fields'[i].value) IN
    /\ fields'[i].error = (e # NoNode)
    /\ fields'[i].ariaInvalid = (e # NoNode)
    /\ errNodes'[fields'[i].parent] = e

Cleared(i) ==
  /\ ~fields'[i].error /\ ~fields'[i].ariaInvalid
  /\ errNodes'[fields'[i].parent] = NoNode

\* the last field of the form, in document order, with the parent of field i
LastOfParent(i) ==
  CHOOSE j \in DOMAIN fields :
    /\ fields[j].parent = fields[i].parent
    /\ \A k \in DOMAIN fields : fields[k].parent = fields[i].parent => k <= j

C19_Runs ==
  \* a blur validates the field: its three markers are those of its value
  /\ (lastForm'.ev = "blur") => Recomputed(lastForm'.field)
  \* a submit validates every field in document order
  /\ (lastForm'.ev = "submit" /\ ~lastForm'.threw)
       => \A i \in DOMAIN fields :
            /\ fields'[i].value = fields[i].value
            /\ fields'[i].error = (ErrorOf(i) # NoNode)
            /\ fields'[i].ariaInvalid = (ErrorOf(i) # NoNode)
            /\ i = LastOfParent(i) => Recomputed(i)
  \* an input event clears the markers of its field, whatever the new value
  /\ (lastForm'.ev = "input")
       => \A i \in DOMAIN fields : fields'[i].value # fields[i].value => Cleared(i)

\* C19: every validation run of a field (at its blur, and for each field at
\* a submit) removes its error class, aria-invalid and the message node of
\* its parent and sets all three again only if the field fails now, with
\* the message of that failure; an input event removes all three without
\* validating the new value.
C19_MarkersRecomputed == [][C19_Runs]_vars

C19_Witness ==
  /\ lastForm.ev = "blur" /\ lastForm.had /\ lastForm.ok
  /\ ~fields[lastForm.field].error /\ ~fields[lastForm.field].ariaInvalid
  /\ errNodes[fields[lastForm.field].parent] = NoNode

(***************************************************************************)
(* Claims about the transient focus move.                                  *)
(***************************************************************************)
\* the click being dispatched moves the focus: a nav link whose fragment
\* resolves, or the skip link of a page that has #main
FocusMoves ==
  /\ click.phase = "target"
  /\ \/ FragmentResolves(click.target)
     \/ click.target = "skip" /\ tabindex.main # "none"

\* C21: after a resolved nav-link click or a skip-link click, the tabindex
\* attribute of the target element (the scroll target, respectively #main)
\* has the presence and the value it had before the click, with and without
\* a tabindex in the markup.
C21_TabindexKept == [][FocusMoves => tabindex' = tabindex]_vars

\* C21, what the handlers do: the target is left without the attribute,
\* which is how it was found only when it had none
C21_TabindexRemoved ==
  [][FocusMoves =>
       LET el == IF click.target = "skip" THEN "main" ELSE "section" IN
         /\ tabindex'[el] = "absent"
         /\ focus' = el
         /\ \A o \in DOMAIN tabindex : o # el => tabindex'[o] = tabindex[o]]_vars

\* a click has moved the focus to a target that had a tabindex of its own
C21_Witness ==
  /\ lastMenu.ev = "targetListener" /\ lastMenu.target \in {"link_ok", "skip"}
  /\ focus \in {"section", "main"}
  /\ tabindex[focus] = "absent"
  /\ \E o \in DOMAIN tabindex : o # focus /\ tabindex[o] \in {"0", "-1"}

(***************************************************************************)
(* Claims about the success state of the form.                             *)
(***************************************************************************)
\* the .form-success elements inside the form: showFormSuccess creates one
\* only when querySelector finds none (796-804)
BannerCount == IF banner = 0 THEN 0 ELSE 1

\* C22: in every reachable state, under any interleaving of valid
\* submissions and firing reset timers, the form carries the success class
\* if and only if it contains a success banner, and it never contains more
\* than one success banner.
C22_SuccessCoherent ==
  /\ formSuccess <=> BannerCount > 0
  /\ BannerCount <= 1

\* C22, what holds: a banner without the class is one that a later
\* submission created and whose own timer is still pending; the class is
\* never there without a banner
C22_BannerOutlivesClass ==
  /\ formSuccess => banner # 0
  /\ banner # 0 => \E k \in DOMAIN formTimers : formTimers[k].el = banner
  /\ BannerCount <= 1

\* no success class, no success banner
C23_Clean == ~formSuccess /\ banner = 0

\* once no timer is pending the form is clean
C23_CleanWhenDone == formTimers = <<>> => C23_Clean

\* a pending timer is due FORM_RESET_DELAY ms after the valid submission
\* that started it, so the last one at most that long after the last
C23_Deadline ==
  \A k \in DOMAIN formTimers :
    /\ formTimers[k].left >= 0
    /\ formTimers[k].left + formTimers[k].age = FORM_RESET_DELAY
    /\ k < Len(formTimers) => formTimers[k].left <= formTimers[k + 1].left

\* C23: after any finite sequence of valid submissions, once all scheduled
\* timers have fired (at the latest 5000 ms after the last valid
\* submission) the form carries no success class, contains no success
\* banner and no timer remains pending; and the timers do all fire.
C23_EventuallyCleanedUp ==
  /\ []C23_CleanWhenDone
  /\ []C23_Deadline
  /\ (formTimers # <<>>) ~> (formTimers = <<>> /\ C23_Clean)
  /\ <>[](formTimers = <<>> /\ C23_Clean)

\* the timers of overlapping valid submissions have all fired, the last of
\* them for a banner that an earlier timer did not hold
C23_Witness ==
  /\ nValid = MaxSubmits /\ nResets = nValid
  /\ formTimers = <<>>
  /\ lastForm.ev = "reset" /\ lastForm.behind = 1 /\ lastForm.el = 2
  /\ C23_Clean

(***************************************************************************)
(* Claims about the error markers of the fields.                           *)
(***************************************************************************)
\* the .field-error nodes inside parent element p: showFieldError creates
\* one only when querySelector finds none (762-769)
ErrorNodeCount(p) == IF errNodes[p] = NoNode THEN 0 ELSE 1

\* C24: after any sequence of blur, input and submit events on a form of
\* any layout (including two fields sharing one parent element), every field
\* carries the error class iff it carries aria-invalid='true' iff an
\* error-message node exists in its parent element, the message shown is
\* that field's own current failure, and no parent element contains more
\* than one error-message node.
C24_FieldErrorCoherent ==
  /\ \A i \in DOMAIN fields :
       /\ fields[i].error <=> fields[i].ariaInvalid
       /\ fields[i].ariaInvalid <=> ErrorNodeCount(fields[i].parent) > 0
       /\ fields[i].error => errNodes[fields[i].parent] = ErrorOf(i)
  /\ \A p \in DOMAIN errNodes : ErrorNodeCount(p) <= 1

\* C24, what holds in every layout: class and aria-invalid go together, and
\* a field that has its parent element to itself has the class iff the
\* parent holds a message node
C24_OwnParentCoherent ==
  /\ \A i \in DOMAIN fields :
       /\ fields[i].error <=> fields[i].ariaInvalid
       /\ ~SharesParent(i) =>
            (fields[i].error <=> ErrorNodeCount(fields[i].parent) > 0)
  /\ \A p \in DOMAIN errNodes : ErrorNodeCount(p) <= 1

\* C24, until a timer callback has called form.reset(), which changes the
\* values and leaves the markers, the message of a field that has its
\* parent element to itself is the failure of its current value
C24_OwnParentCurrent ==
  nResets = 0 =>
    \A i \in DOMAIN fields :
      (fields[i].error /\ ~SharesParent(i)) => errNodes[fields[i].parent] = ErrorOf(i)
====
